---- MODULE Spec2Model ----
(***************************************************************************)
(* A model of the POS back end's double-entry accounting engine            *)
(* (src/database.py) and of its synchronisation layer                      *)
(* (src/sync_service.py, src/database_sync.py).                            *)
(*                                                                         *)
(* Money is counted in integer cents.  None is modelled as 0 for ids       *)
(* (SQLite AUTOINCREMENT ids start at 1) and as "" for strings.            *)
(* A data-access function of database.py opens a connection, executes its  *)
(* statements and commits, or rolls back in its except clause: it is one   *)
(* action here, computed on a working copy of the tables (a "tx" record)   *)
(* whose field ok turns FALSE where the code raises.                       *)
(***************************************************************************)
EXTENDS Integers, Sequences, FiniteSets, TLC

\* ------------------------------------------------------------------ bounds
\* committed recording operations (sales + purchases + expenses + later payments)
MaxOps == 2
\* calls of the synchronisation layer and of the catalogue
MaxSyncOps == 3
\* threads start_auto_sync creates
MaxThreads == 2
\* largest APIConfig.retry_attempts
MaxRetryAttempts == 2
\* concurrent record_sale calls
MaxSessions == 2

\* ------------------------------------------------------------ input domains
\* products present after construction; NoProduct is an id no row has
ProductIds == {1, 2}
LocalProductNames == <<"Local Product 1", "Local Product 2">>
NoProduct == {3}
Discounts == {0, 2}
\* tax rates in percent: 0.0 and 0.25
TaxRates == {0, 25}
\* customer_id: 0 is None
Customers == {0, 1}
\* the days datetime.now() falls on while the program runs
Days == {1, 2}
\* later payments: (method, amount) as add_payment_to_sale takes them
LaterPayments ==
  {<<"Cash", 10>>, <<"M-Pesa", 10>>, <<"CASH", 0>>, <<"cash", -10>>}

\* the 0.01 of the status comparisons, in cents
Tolerance == 1

\* --------------------------------------------------------- chart of accounts
AccountType ==
  [a \in {"Cash", "Bank", "Accounts Receivable", "Inventory"} |-> "Asset"] @@
  [a \in {"Accounts Payable", "Sales Tax Payable"} |-> "Liability"] @@
  [a \in {"Owner's Equity", "Retained Earnings"} |-> "Equity"] @@
  [a \in {"Sales Revenue", "Sales Discounts"} |-> "Revenue"] @@
  [a \in {"Cost of Goods Sold", "Rent Expense", "Utilities Expense",
           "Salaries Expense", "Office Supplies Expense",
           "Miscellaneous Expense"} |-> "Expense"]

DefaultAccounts == DOMAIN AccountType

VARIABLES
  chart_of_accounts, products, sales, sale_items, sale_payments,
  purchases, purchase_items, expenses, journal_entries,
  sale_seq, purchase_seq, expense_seq, today, last

ledgerVars ==
  <<chart_of_accounts, products, sales, sale_items, sale_payments,
    purchases, purchase_items, expenses, journal_entries,
    sale_seq, purchase_seq, expense_seq, today, last>>

\* the catalogue tables the synchronisation reads and writes, the tracking
\* tables of database_sync.py, MockAPIClient.mock_data, the clock that
\* datetime.now() reads, and the result of the last synchronisation call
VARIABLES
  categories, suppliers, product_seq, category_seq, supplier_seq,
  sync_tracking, sync_config, mock_data, clock, sync_last, sync_history

syncVars ==
  <<categories, suppliers, product_seq, category_seq, supplier_seq,
    sync_tracking, sync_config, mock_data, clock, sync_last, sync_history>>

\* SyncService.running and SyncService.sync_thread, the worker threads (the
\* place each has reached in _auto_sync_worker), the jobs of the schedule
\* module's scheduler (TRUE when the job is due), the sync_all runs the last
\* elapsed interval has triggered, and the last call made
VARIABLES running, sync_thread, workers, jobs, interval_runs, auto_last

autoVars == <<running, sync_thread, workers, jobs, interval_runs, auto_last>>

\* the call of APIClient._make_request in progress: its configuration, the
\* loop variable, the responses received, the delays slept and the result
VARIABLES api_request

apiVars == <<api_request>>

\* the connection that holds the database's write lock (0 when none does)
\* and the record_sale calls in progress, each on a connection of its own
VARIABLES db_lock, sessions

saleVars == <<db_lock, sessions>>

vars == <<ledgerVars, syncVars, autoVars, apiVars, saleVars>>

\* ------------------------------------------------------------------ helpers
RECURSIVE SumSeq(_)
SumSeq(s) == IF s = <<>> THEN 0 ELSE Head(s) + SumSeq(Tail(s))

Abs(x) == IF x < 0 THEN -x ELSE x

\* Sequences over S of length 0..n
SeqUpTo(S, n) == UNION {[1..k -> S] : k \in 0..n}

\* The tables as one connection sees them inside a transaction.
Begin ==
  [ok |-> TRUE, products |-> products, sales |-> sales,
   sale_items |-> sale_items, sale_payments |-> sale_payments,
   purchases |-> purchases, purchase_items |-> purchase_items,
   expenses |-> expenses, journal_entries |-> journal_entries,
   sale_seq |-> sale_seq, purchase_seq |-> purchase_seq,
   expense_seq |-> expense_seq]

\* raise: the statements that follow are not executed
\* an exception that is swallowed where it is raised
RaiseIgnored(tx) == tx

Raise(tx) == [tx EXCEPT !.ok = FALSE]

\* conn.rollback() in the except clause: the tables as they were at Begin
Rollback(tx) == [Begin EXCEPT !.ok = FALSE]

\* a commit in the place of the rollback
FinishCommitsAlways(tx) == tx

\* conn.commit() on the normal path, the except clause otherwise
Finish(tx) == IF tx.ok THEN tx ELSE Rollback(tx)

\* _create_journal_entry: both account names must resolve, then one row
\* holding the debit account, the credit account and the amount.
CreateJournalEntry(tx, debit, credit, amount, ref_id, ref_type) ==
  IF ~tx.ok THEN tx
  ELSE IF debit \notin chart_of_accounts THEN Raise(tx)
  ELSE IF credit \notin chart_of_accounts THEN Raise(tx)
  ELSE [tx EXCEPT !.journal_entries =
          Append(@, [debit |-> debit, credit |-> credit, amount |-> amount,
                     reference_id |-> ref_id, reference_type |-> ref_type,
                     date |-> today])]

\* ------------------------------------------------------------- record_sale
\* str.lower() on the payment methods in use
Lower(method) ==
  CASE method \in {"Cash", "CASH", "cash"} -> "cash"
    [] method = "M-Pesa" -> "m-pesa"
    [] OTHER -> method

\* every payment booked to the bank account
PaymentAccountAlwaysBank(method) == "Bank"

\* 'Bank' unless the method, lower-cased, is 'cash'
PaymentAccount(method) ==
  IF Lower(method) # "cash" THEN "Bank" ELSE "Cash"

\* a sale that is marked paid whatever was paid
SaleStatusAlwaysPaid(customer_id, total_paid, final_total) == "Paid"

SaleStatus(customer_id, total_paid, final_total) ==
  IF customer_id # 0
  THEN IF Abs(total_paid - final_total) > Tolerance
       THEN (IF total_paid > 0 THEN "Partial" ELSE "Due")
       ELSE "Paid"
  ELSE "Paid"

\* the loop over cart_items: item row, stock update, buying price lookup
RECURSIVE SaleItemsLoop(_, _, _, _)
SaleItemsLoop(tx, cart, sale_id, cogs) ==
  IF ~tx.ok \/ cart = <<>> THEN [tx |-> tx, cogs |-> cogs]
  ELSE
    LET item == Head(cart)
        pid == item.product_id
        t1 == [tx EXCEPT !.sale_items =
                 Append(@, [sale_id |-> sale_id, product_id |-> pid,
                            quantity |-> item.quantity,
                            price_at_sale |-> item.price_at_sale])]
    IN IF pid \notin DOMAIN tx.products
       \* UPDATE matches no row; fetchone() is None and subscripting it raises
       THEN [tx |-> Raise(t1), cogs |-> cogs]
       ELSE
         LET t2 == [t1 EXCEPT !.products[pid].stock = @ - item.quantity]
         IN SaleItemsLoop(t2, Tail(cart), sale_id,
                          cogs + item.quantity * t2.products[pid].buying_price)

RECURSIVE SalePaymentRows(_, _, _)
SalePaymentRows(tx, payments, sale_id) ==
  IF payments = <<>> THEN tx
  ELSE SalePaymentRows(
         [tx EXCEPT !.sale_payments =
            Append(@, [sale_id |-> sale_id, method |-> Head(payments).method,
                       amount |-> Head(payments).amount])],
         Tail(payments), sale_id)

RECURSIVE SalePaymentEntries(_, _, _)
SalePaymentEntries(tx, payments, sale_id) ==
  IF ~tx.ok \/ payments = <<>> THEN tx
  ELSE SalePaymentEntries(
         CreateJournalEntry(tx, PaymentAccount(Head(payments).method),
                            "Accounts Receivable", Head(payments).amount,
                            sale_id, "sale"),
         Tail(payments), sale_id)

CartSubtotal(cart) ==
  SumSeq([i \in 1..Len(cart) |-> cart[i].quantity * cart[i].price_at_sale])

TotalPaid(payments) ==
  SumSeq([i \in 1..Len(payments) |-> payments[i].amount])

\* a price taken as free of tax
GrossRevenueUntaxed(subtotal, tax_rate) == subtotal

\* subtotal / (1 + tax_rate), the rate in percent
GrossRevenue(subtotal, tax_rate) ==
  IF tax_rate > 0 THEN (subtotal * 100) \div (100 + tax_rate) ELSE subtotal

\* the statements of record_sale up to, not including, commit/rollback
RecordSaleBody(cart, payments, discount_amount, tax_rate, customer_id) ==
  IF cart = <<>> THEN Raise(Begin)
  ELSE
    LET total_paid == TotalPaid(payments)
        subtotal == CartSubtotal(cart)
        final_total == subtotal - discount_amount
        status == SaleStatus(customer_id, total_paid, final_total)
        sale_id == sale_seq + 1
        t1 == [Begin EXCEPT
                 !.sale_seq = sale_id,
                 !.sales = @ @@ (sale_id :>
                    [total_amount |-> final_total,
                     discount_amount |-> discount_amount,
                     tax_amount |-> tax_rate, customer_id |-> customer_id,
                     status |-> status, sale_date |-> today])]
        loop == SaleItemsLoop(t1, cart, sale_id, 0)
        total_cogs == loop.cogs
        t2 == IF loop.tx.ok THEN SalePaymentRows(loop.tx, payments, sale_id)
              ELSE loop.tx
        gross_revenue == GrossRevenue(subtotal, tax_rate)
        gross_tax == subtotal - gross_revenue
        t3 == CreateJournalEntry(t2, "Accounts Receivable", "Sales Revenue",
                                 gross_revenue, sale_id, "sale")
        t4 == IF gross_tax > 0
              THEN CreateJournalEntry(t3, "Accounts Receivable",
                                      "Sales Tax Payable", gross_tax,
                                      sale_id, "sale")
              ELSE t3
        t5 == IF discount_amount > 0
              THEN CreateJournalEntry(t4, "Sales Discounts",
                                      "Accounts Receivable", discount_amount,
                                      sale_id, "sale")
              ELSE t4
        t6 == SalePaymentEntries(t5, payments, sale_id)
        t7 == IF total_cogs > 0
              THEN CreateJournalEntry(t6, "Cost of Goods Sold", "Inventory",
                                      total_cogs, sale_id, "sale")
              ELSE t6
    IN t7

record_sale(cart, payments, discount_amount, tax_rate, customer_id) ==
  Finish(RecordSaleBody(cart, payments, discount_amount, tax_rate, customer_id))

\* ----------------------------------------------------- add_payment_to_sale
AddPaymentBody(sale_id, payment_method, amount) ==
  LET t1 == [Begin EXCEPT !.sale_payments =
               Append(@, [sale_id |-> sale_id, method |-> payment_method,
                          amount |-> amount])]
  IN IF sale_id \notin DOMAIN t1.sales
     \* fetchone() is None: subscripting it raises TypeError
     THEN Raise(t1)
     ELSE
       LET total_amount == t1.sales[sale_id].total_amount
           mine == SelectSeq(t1.sale_payments, LAMBDA r : r.sale_id = sale_id)
           total_paid == SumSeq([i \in 1..Len(mine) |-> mine[i].amount])
           new_status == IF Abs(total_paid - total_amount) < Tolerance
                         THEN "Paid" ELSE "Partial"
           t2 == [t1 EXCEPT !.sales[sale_id].status = new_status]
       IN CreateJournalEntry(t2, PaymentAccount(payment_method),
                             "Accounts Receivable", amount, sale_id,
                             "sale_payment")

add_payment_to_sale(sale_id, payment_method, amount) ==
  Finish(AddPaymentBody(sale_id, payment_method, amount))

\* the route POST /api/sales/<sale_id>/payments of app.py: 400 'Invalid
\* amount' before the database is touched, the data-access call otherwise
add_sale_payment(sale_id, payment_method, amount) ==
  IF amount <= 0 THEN Raise(Begin)
  ELSE add_payment_to_sale(sale_id, payment_method, amount)

\* --------------------------------------------------------- record_purchase
RECURSIVE PurchaseItemsLoop(_, _, _)
PurchaseItemsLoop(tx, items, purchase_id) ==
  IF items = <<>> THEN tx
  ELSE
    LET item == Head(items)
        pid == item.product_id
        t1 == [tx EXCEPT !.purchase_items =
                 Append(@, [purchase_id |-> purchase_id, product_id |-> pid,
                            quantity |-> item.quantity,
                            cost_at_purchase |-> item.cost])]
        \* UPDATE ... WHERE id = ?: no row, no change, no error
        t2 == IF pid \in DOMAIN t1.products
              THEN [t1 EXCEPT !.products[pid] =
                      [@ EXCEPT !.stock = @ + item.quantity,
                                !.price = item.new_price,
                                !.buying_price = item.cost]]
              ELSE t1
    IN PurchaseItemsLoop(t2, Tail(items), purchase_id)

\* a purchase booked at no cost
PurchaseTotalZero(items) == 0

PurchaseTotal(items) ==
  SumSeq([i \in 1..Len(items) |-> items[i].quantity * items[i].cost])

RecordPurchaseBody(supplier_id, items) ==
  LET total_cost == PurchaseTotal(items)
      purchase_id == purchase_seq + 1
      t1 == [Begin EXCEPT
               !.purchase_seq = purchase_id,
               !.purchases = @ @@ (purchase_id :>
                  [supplier_id |-> supplier_id, total_cost |-> total_cost])]
      t2 == PurchaseItemsLoop(t1, items, purchase_id)
  IN CreateJournalEntry(t2, "Inventory", "Accounts Payable", total_cost,
                        purchase_id, "purchase")

record_purchase(supplier_id, items) ==
  Finish(RecordPurchaseBody(supplier_id, items))

\* ------------------------------------------------------- delete_sale_by_id
RECURSIVE RevertStock(_, _)
RevertStock(prods, items) ==
  IF items = <<>> THEN prods
  ELSE LET item == Head(items)
       IN RevertStock(
            IF item.product_id \in DOMAIN prods
            THEN [prods EXCEPT ![item.product_id].stock = @ + item.quantity]
            ELSE prods,
            Tail(items))

\* DELETE FROM journal_entries WHERE reference_type = 'sale' AND reference_id = ?
DeleteSaleJournal(entries, sale_id) ==
  SelectSeq(entries,
            LAMBDA e : ~(e.reference_type = "sale" /\ e.reference_id = sale_id))

DeleteSaleBody(sale_id) ==
  LET items_to_revert ==
        SelectSeq(sale_items, LAMBDA r : r.sale_id = sale_id)
  IN [Begin EXCEPT
        !.products = RevertStock(@, items_to_revert),
        !.journal_entries = DeleteSaleJournal(@, sale_id),
        !.sale_payments = SelectSeq(@, LAMBDA r : r.sale_id # sale_id),
        !.sale_items = SelectSeq(@, LAMBDA r : r.sale_id # sale_id),
        !.sales = [k \in DOMAIN @ \ {sale_id} |-> @[k]]]

\* a delete that reports success whatever it found
DeleteSaleAlwaysTrue(sale_id) == DeleteSaleBody(sale_id)

\* the returned cursor.rowcount > 0 is that of DELETE FROM sales
delete_sale_by_id(sale_id) ==
  [DeleteSaleBody(sale_id) EXCEPT !.ok = sale_id \in DOMAIN sales]

\* ---------------------------------------------------------- update_product
\* UPDATE products SET name, price, stock, buying_price WHERE id = ?: the
\* UNIQUE name of another product is an IntegrityError, and the result is
\* cursor.rowcount > 0
update_product(product_id, name, price, stock, buying_price) ==
  IF \E other \in DOMAIN products \ {product_id} : products[other].name = name
  THEN Raise(Begin)
  ELSE IF product_id \notin DOMAIN products THEN Raise(Begin)
  ELSE [Begin EXCEPT
          !.products[product_id] =
             [name |-> name, stock |-> stock, price |-> price,
              buying_price |-> buying_price]]

\* ------------------------------------------------------------- add_expense
AddExpenseBody(amount, expense_account_name, payment_account_name) ==
  IF expense_account_name \notin chart_of_accounts THEN Raise(Begin)
  ELSE IF payment_account_name \notin chart_of_accounts THEN Raise(Begin)
  ELSE
    LET expense_id == expense_seq + 1
        t1 == [Begin EXCEPT
                 !.expense_seq = expense_id,
                 !.expenses = @ @@ (expense_id :>
                    [amount |-> amount,
                     expense_account |-> expense_account_name,
                     payment_account |-> payment_account_name])]
    IN CreateJournalEntry(t1, expense_account_name, payment_account_name,
                          amount, expense_id, "expense")

add_expense(amount, expense_account_name, payment_account_name) ==
  Finish(AddExpenseBody(amount, expense_account_name, payment_account_name))

\* get_sale_by_id: <<row>>, or <<>> for None
get_sale_by_id(sale_id) ==
  IF sale_id \in DOMAIN sales THEN <<sales[sale_id]>> ELSE <<>>

\* ------------------------------------------------------------- statements
\* get_accounts_by_type
get_accounts_by_type(account_type) ==
  {a \in chart_of_accounts : AccountType[a] = account_type}

\* a date bound that is None (0) or empty does not filter
InWindow(e, start_date, end_date) ==
  /\ (start_date = 0 \/ e.date >= start_date)
  /\ (end_date = 0 \/ e.date <= end_date)

\* get_account_balance: the type of the first account found decides the sign
get_account_balance(account_names, start_date, end_date) ==
  LET accounts == account_names \cap chart_of_accounts
      rows == SelectSeq(journal_entries,
                        LAMBDA e : InWindow(e, start_date, end_date))
      total_debits ==
        SumSeq([i \in 1..Len(rows) |->
                  IF rows[i].debit \in accounts THEN rows[i].amount ELSE 0])
      total_credits ==
        SumSeq([i \in 1..Len(rows) |->
                  IF rows[i].credit \in accounts THEN rows[i].amount ELSE 0])
  IN IF accounts = {} THEN 0
     ELSE LET account_type == AccountType[CHOOSE a \in accounts : TRUE]
          IN IF account_type \in {"Asset", "Expense"}
             THEN total_debits - total_credits
             ELSE total_credits - total_debits

\* the sum of the values of a function with a finite domain
RECURSIVE SumFn(_)
SumFn(f) ==
  IF DOMAIN f = {} THEN 0
  ELSE LET x == CHOOSE y \in DOMAIN f : TRUE
       IN f[x] + SumFn([z \in DOMAIN f \ {x} |-> f[z]])

SumOver(S, F(_)) == SumFn([x \in S |-> F(x)])

get_profit_and_loss_statement(start_date, end_date) ==
  LET total_revenue == get_account_balance({"Sales Revenue"}, start_date, end_date)
      sales_discounts == get_account_balance({"Sales Discounts"}, start_date, end_date)
      net_revenue == total_revenue - sales_discounts
      total_cogs == get_account_balance({"Cost of Goods Sold"}, start_date, end_date)
      gross_profit == net_revenue - total_cogs
      expense_accounts == get_accounts_by_type("Expense") \ {"Cost of Goods Sold"}
      Positive(acc) ==
        LET balance == get_account_balance({acc}, start_date, end_date)
        IN IF balance > 0 THEN balance ELSE 0
      total_expenses == SumOver(expense_accounts, Positive)
  IN [total_revenue |-> total_revenue, discounts |-> sales_discounts,
      net_revenue |-> net_revenue, total_cogs |-> total_cogs,
      gross_profit |-> gross_profit, total_expenses |-> total_expenses,
      net_profit |-> gross_profit - total_expenses]

get_balance_sheet(end_date) ==
  LET Bal(acc) == get_account_balance({acc}, 0, end_date)
      current_period_profit == get_profit_and_loss_statement(0, end_date).net_profit
      EquityBal(acc) ==
        IF acc = "Retained Earnings" THEN current_period_profit ELSE Bal(acc)
      total_assets == SumOver(get_accounts_by_type("Asset"), Bal)
      total_liabilities == SumOver(get_accounts_by_type("Liability"), Bal)
      total_equity == SumOver(get_accounts_by_type("Equity"), EquityBal)
  IN [assets |-> total_assets, liabilities |-> total_liabilities,
      equity |-> total_equity,
      total_liabilities_and_equity |-> total_liabilities + total_equity]

\* ------------------------------------------------------------------ inputs
\* cart lines: one unit of product 1; two units of product 2, more than its
\* stock, at price 0; a line naming a product id no row has
CartLines ==
  {[product_id |-> 1, quantity |-> 1, price_at_sale |-> 10],
   [product_id |-> 2, quantity |-> 2, price_at_sale |-> 0]}
  \cup [product_id : NoProduct, quantity : {1}, price_at_sale : {10}]

\* carts of up to two lines, the lines in ascending product id order
Carts ==
  {c \in SeqUpTo(CartLines, 2) :
     \A i \in 1..(Len(c) - 1) : c[i].product_id < c[i + 1].product_id}

\* payments handed to record_sale with the cart
SalePayments == SeqUpTo([method : {"Cash"}, amount : {10}], 1)

PlainCart == <<[product_id |-> 1, quantity |-> 1, price_at_sale |-> 10]>>

\* record_sale's arguments: any cart on the default terms (no payment, and
\* the defaults discount_amount=0.0, tax_rate=0.0, customer_id=None), or the
\* one-line cart with any payment and discount, taxed for a walk-in sale or
\* untaxed for any customer
SaleRequests ==
  [cart : Carts, payments : {<<>>}, discount : {0}, tax : {0}, customer : {0}]
  \cup [cart : {PlainCart}, payments : SalePayments,
        discount : Discounts, tax : TaxRates, customer : {0}]
  \cup [cart : {PlainCart}, payments : SalePayments,
        discount : Discounts, tax : {0}, customer : Customers]

\* purchase lines: product 1 at cost 0 and at cost 5, and an unknown product
PurchaseLines ==
  {[product_id |-> 1, quantity |-> 1, cost |-> 0, new_price |-> 20],
   [product_id |-> 1, quantity |-> 1, cost |-> 5, new_price |-> 10]}
  \cup [product_id : NoProduct, quantity : {1}, cost : {5}, new_price : {20}]

\* purchases of up to two different lines, in ascending order of product id
\* and cost; two of the lines are for product 1
PurchaseLists ==
  {l \in SeqUpTo(PurchaseLines, 2) :
     Len(l) = 2 => /\ l[1] # l[2]
                   /\ l[1].cost <= l[2].cost
                   /\ l[1].product_id <= l[2].product_id}

\* the product edited through the product form, and the stock typed in
EditedProducts == {2}
EditedStocks == {0}

ExpenseAmounts == {-5, 0, 5}
\* (expense_account_name, payment_account_name): at most one of them unknown
ExpenseAccountPairs ==
  {<<"Rent Expense", "Cash">>, <<"No Such Account", "Cash">>,
   <<"Rent Expense", "No Such Account">>}

\* start_date and end_date of the statements: the days, and one before them
EndDates == {0} \cup Days

\* ----------------------------------------------------------- state machine
InitProducts ==
  [p \in ProductIds |->
     [name |-> LocalProductNames[p], stock |-> 1, price |-> 10,
      buying_price |-> 4]]

\* init_db: the tables are created empty; populate_chart_of_accounts inserts
\* the default chart in one transaction, or nothing when it fails.
LedgerInit ==
  /\ chart_of_accounts \in {DefaultAccounts, {}}
  /\ products = InitProducts
  /\ sales = <<>>
  /\ sale_items = <<>>
  /\ sale_payments = <<>>
  /\ purchases = <<>>
  /\ purchase_items = <<>>
  /\ expenses = <<>>
  /\ journal_entries = <<>>
  /\ sale_seq = 0
  /\ purchase_seq = 0
  /\ expense_seq = 0
  /\ today = 1
  /\ last = [op |-> "init", ok |-> TRUE, id |-> 0]

\* what the connection leaves in the tables when it is closed
Apply(tx) ==
  /\ products' = tx.products
  /\ sales' = tx.sales
  /\ sale_items' = tx.sale_items
  /\ sale_payments' = tx.sale_payments
  /\ purchases' = tx.purchases
  /\ purchase_items' = tx.purchase_items
  /\ expenses' = tx.expenses
  /\ journal_entries' = tx.journal_entries
  /\ sale_seq' = tx.sale_seq
  /\ purchase_seq' = tx.purchase_seq
  /\ expense_seq' = tx.expense_seq

PaymentsAdded ==
  Len(SelectSeq(journal_entries, LAMBDA e : e.reference_type = "sale_payment"))

OpsUsed == sale_seq + purchase_seq + expense_seq + PaymentsAdded

RecordSale ==
  \E r \in SaleRequests :
    /\ OpsUsed < MaxOps
    /\ LET tx == record_sale(r.cart, r.payments, r.discount, r.tax, r.customer)
       IN /\ Apply(tx)
          /\ last' = [op |-> "record_sale", ok |-> tx.ok,
                      id |-> IF tx.ok THEN tx.sale_seq ELSE 0]
    /\ UNCHANGED <<chart_of_accounts, today, syncVars, autoVars, apiVars, saleVars>>

AddPaymentToSale ==
  \E sale_id \in 1..(sale_seq + 1), pay \in LaterPayments :
    /\ OpsUsed < MaxOps
    /\ LET tx == add_payment_to_sale(sale_id, pay[1], pay[2])
       IN /\ Apply(tx)
          /\ last' = [op |-> "add_payment_to_sale", ok |-> tx.ok, id |-> sale_id]
    /\ UNCHANGED <<chart_of_accounts, today, syncVars, autoVars, apiVars, saleVars>>

RecordPurchase ==
  \E items \in PurchaseLists :
    /\ OpsUsed < MaxOps
    /\ LET tx == record_purchase(1, items)
       IN /\ Apply(tx)
          /\ last' = [op |-> "record_purchase", ok |-> tx.ok,
                      id |-> IF tx.ok THEN tx.purchase_seq ELSE 0]
    /\ UNCHANGED <<chart_of_accounts, today, syncVars, autoVars, apiVars, saleVars>>

AddExpense ==
  \E amount \in ExpenseAmounts, names \in ExpenseAccountPairs :
    /\ OpsUsed < MaxOps
    /\ LET tx == add_expense(amount, names[1], names[2])
       IN /\ Apply(tx)
          /\ last' = [op |-> "add_expense", ok |-> tx.ok,
                      id |-> IF tx.ok THEN tx.expense_seq ELSE 0]
    /\ UNCHANGED <<chart_of_accounts, today, syncVars, autoVars, apiVars, saleVars>>

DeleteSale ==
  \E sale_id \in 1..(sale_seq + 1) :
    /\ LET tx == delete_sale_by_id(sale_id)
       IN /\ Apply(tx)
          /\ last' = [op |-> "delete_sale_by_id", ok |-> tx.ok, id |-> sale_id]
    /\ UNCHANGED <<chart_of_accounts, today, syncVars, autoVars, apiVars, saleVars>>

\* PUT /api/products/<id>: the form sends the row back with the stock field
\* edited
UpdateProduct ==
  \E product_id \in EditedProducts, stock \in EditedStocks :
    /\ OpsUsed < MaxOps
    /\ product_id \in DOMAIN products => products[product_id].stock # stock
    /\ LET row == products[product_id]
           tx == update_product(product_id, row.name, row.price, stock,
                                row.buying_price)
       IN /\ Apply(tx)
          /\ last' = [op |-> "update_product", ok |-> tx.ok,
                      id |-> product_id]
    /\ UNCHANGED <<chart_of_accounts, today, syncVars, autoVars, apiVars, saleVars>>

\* datetime.now() moves on
Tick ==
  /\ today + 1 \in Days
  /\ today' = today + 1
  /\ UNCHANGED <<chart_of_accounts, products, sales, sale_items, sale_payments,
                 purchases, purchase_items, expenses, journal_entries,
                 sale_seq, purchase_seq, expense_seq, last, syncVars,
                 autoVars, apiVars, saleVars>>

LedgerNext ==
  \/ RecordSale
  \/ AddPaymentToSale
  \/ RecordPurchase
  \/ AddExpense
  \/ DeleteSale
  \/ UpdateProduct
  \/ Tick

\* ---------------------------------------------------------------- sync layer
\* External ids "ext_prod_n", "ext_cat_n", "ext_sup_n" are the integer n; 0 is
\* None.  Timestamps are readings of clock.

EntityTypes == {"product", "category", "supplier"}
PendingStatuses == {"pending", "updated", "deleted"}

\* datetime.min, before every timestamp
DatetimeMin == -1
\* limit of get_pending_sync_items and of the mock's pagination
BatchSize == 50
PageLimit == 100

RECURSIVE SortedSeq(_)
SortedSeq(S) ==
  IF S = {} THEN <<>>
  ELSE LET m == CHOOSE x \in S : \A y \in S : x <= y
       IN <<m>> \o SortedSeq(S \ {m})

Take(s, n) == SubSeq(s, 1, IF Len(s) < n THEN Len(s) ELSE n)

\* index of the first record of s whose id is the given one, 0 when none
IndexOf(s, id) ==
  IF \E i \in 1..Len(s) : s[i].id = id
  THEN CHOOSE i \in 1..Len(s) :
         s[i].id = id /\ \A j \in 1..(i - 1) : s[j].id # id
  ELSE 0

RemoveAt(s, i) == SubSeq(s, 1, i - 1) \o SubSeq(s, i + 1, Len(s))

\* What one synchronisation call works on: every database function it calls
\* commits by itself, so there is no rollback; the counters are its results
\* dictionary, calls the remote calls it made, writes the rows it inserted
\* or updated.
SyncBegin ==
  [products |-> products, product_seq |-> product_seq,
   categories |-> categories, category_seq |-> category_seq,
   suppliers |-> suppliers, supplier_seq |-> supplier_seq,
   sync_tracking |-> sync_tracking, sync_config |-> sync_config,
   mock_data |-> mock_data, sync_history |-> sync_history,
   success |-> TRUE,
   created |-> 0, updated |-> 0, deleted |-> 0, errors |-> 0,
   calls |-> <<>>, writes |-> 0, log |-> <<>>, results |-> <<>>]

RemoteCall(st, call, entity_id) ==
  [st EXCEPT !.calls = Append(@, [call |-> call, entity_id |-> entity_id])]

\* ------------------------------------------------------ database_sync.py
get_sync_config(st, key) ==
  IF key \in DOMAIN st.sync_config THEN st.sync_config[key] ELSE 0

set_sync_config(st, key, value) ==
  [st EXCEPT !.sync_config = (key :> value) @@ @, !.writes = @ + 1]

\* the columns generate_sync_hash digests, "" when the row does not exist
generate_sync_hash(st, entity_type, entity_id) ==
  CASE entity_type = "product" /\ entity_id \in DOMAIN st.products ->
         <<st.products[entity_id].name, st.products[entity_id].price,
           st.products[entity_id].stock, st.products[entity_id].buying_price>>
    [] entity_type = "category" /\ entity_id \in DOMAIN st.categories ->
         <<st.categories[entity_id].name>>
    [] entity_type = "supplier" /\ entity_id \in DOMAIN st.suppliers ->
         <<st.suppliers[entity_id].name,
           st.suppliers[entity_id].contact_person,
           st.suppliers[entity_id].phone>>
    [] OTHER -> <<>>

\* INSERT OR REPLACE INTO sync_tracking
track_entity(st, entity_type, entity_id, external_id, sync_status) ==
  [st EXCEPT
     !.sync_tracking =
        (<<entity_type, entity_id>> :>
           [external_id |-> external_id, sync_status |-> sync_status,
            last_sync |-> clock,
            sync_hash |-> generate_sync_hash(st, entity_type, entity_id)])
        @@ @,
     !.writes = @ + 1]

\* UPDATE sync_tracking ... WHERE entity_type = ? AND entity_id = ?
update_sync_status(st, entity_type, entity_id, external_id, status) ==
  LET key == <<entity_type, entity_id>>
  IN IF key \notin DOMAIN st.sync_tracking THEN st
     ELSE [st EXCEPT
             !.sync_tracking[key] =
                [external_id |-> IF external_id # 0 THEN external_id
                                 ELSE @.external_id,
                 sync_status |-> status,
                 last_sync |-> clock,
                 sync_hash |-> generate_sync_hash(st, entity_type, entity_id)],
             !.writes = @ + 1]

\* the query without its WHERE clause
AllSyncItems(st, entity_type, limit) ==
  LET rows == CASE entity_type = "product" -> st.products
                [] entity_type = "category" -> st.categories
                [] entity_type = "supplier" -> st.suppliers
                [] OTHER -> <<>>
      ids == SortedSeq(DOMAIN rows)
  IN Take([i \in 1..Len(ids) |->
             [id |-> ids[i], row |-> rows[ids[i]], external_id |-> 0,
              sync_status |-> ""]], limit)

\* the rows of the entity's table LEFT JOINed with sync_tracking, where the
\* status is pending, updated, deleted or NULL, ORDER BY id LIMIT limit
get_pending_sync_items(st, entity_type, limit) ==
  LET rows == CASE entity_type = "product" -> st.products
                [] entity_type = "category" -> st.categories
                [] entity_type = "supplier" -> st.suppliers
                [] OTHER -> <<>>
      Tracked(id) == <<entity_type, id>> \in DOMAIN st.sync_tracking
      Pending(id) ==
        \/ ~Tracked(id)
        \/ st.sync_tracking[<<entity_type, id>>].sync_status \in PendingStatuses
      ids == SortedSeq({id \in DOMAIN rows : Pending(id)})
      Item(id) ==
        [id |-> id, row |-> rows[id],
         external_id |-> IF Tracked(id)
                         THEN st.sync_tracking[<<entity_type, id>>].external_id
                         ELSE 0,
         sync_status |-> IF Tracked(id)
                         THEN st.sync_tracking[<<entity_type, id>>].sync_status
                         ELSE ""]
  IN Take([i \in 1..Len(ids) |-> Item(ids[i])], limit)

\* ------------------------------------------------- database.py, catalogue
NameTaken(rows, name) == \E id \in DOMAIN rows : rows[id].name = name

\* INSERT INTO products; the UNIQUE name makes a second insert fail
add_product(st, product_data) ==
  IF NameTaken(st.products, product_data.name) THEN st
  ELSE [st EXCEPT
          !.product_seq = @ + 1,
          !.products = @ @@ ((st.product_seq + 1) :> product_data),
          !.writes = @ + 1]

add_category(st, name) ==
  IF NameTaken(st.categories, name) THEN st
  ELSE [st EXCEPT
          !.category_seq = @ + 1,
          !.categories = @ @@ ((st.category_seq + 1) :> [name |-> name]),
          !.writes = @ + 1]

\* the id of the category of that name, 0 when there is none
get_category_by_name(st, name) ==
  IF NameTaken(st.categories, name)
  THEN CHOOSE id \in DOMAIN st.categories : st.categories[id].name = name
  ELSE 0

add_supplier(st, supplier_data) ==
  IF NameTaken(st.suppliers, supplier_data.name) THEN st
  ELSE [st EXCEPT
          !.supplier_seq = @ + 1,
          !.suppliers = @ @@ ((st.supplier_seq + 1) :> supplier_data),
          !.writes = @ + 1]

\* SELECT * FROM suppliers WHERE name = ?
SupplierByName(st, name) ==
  IF NameTaken(st.suppliers, name)
  THEN CHOOSE id \in DOMAIN st.suppliers : st.suppliers[id].name = name
  ELSE 0

\* UPDATE suppliers SET name, contact_person, phone WHERE id = ?
update_supplier(st, supplier_id, supplier_data) ==
  IF supplier_id \notin DOMAIN st.suppliers THEN st
  ELSE IF \E id \in DOMAIN st.suppliers \ {supplier_id} :
            st.suppliers[id].name = supplier_data.name
  THEN st
  ELSE [st EXCEPT !.suppliers[supplier_id] = supplier_data,
                  !.writes = @ + 1]

\* ------------------------------------------------ api_client.MockAPIClient
\* get_products: the products updated after updated_since, one page of them
MockGetProducts(st, updated_since) ==
  Take(SelectSeq(st.mock_data.products,
                 LAMBDA p : p.updated_at > updated_since), PageLimit)

\* create_product: the new id is the number of products + 1
MockCreateProduct(st, product_data) ==
  [st EXCEPT !.mock_data.products =
     Append(@, [product_data EXCEPT !.id = Len(st.mock_data.products) + 1,
                                    !.updated_at = clock])]

\* update_product: replaces the first product of that id
MockUpdateProduct(st, product_id, product_data) ==
  [st EXCEPT !.mock_data.products[IndexOf(st.mock_data.products, product_id)] =
     [product_data EXCEPT !.id = product_id, !.updated_at = clock]]

\* delete_product: removes the first product of that id
MockDeleteProduct(st, product_id) ==
  [st EXCEPT !.mock_data.products =
     RemoveAt(@, IndexOf(st.mock_data.products, product_id))]

\* --------------------------------------------------------- sync_service.py
\* the payload has no external_id key
MapLocalProduct(local_product) ==
  [id |-> 0, name |-> local_product.row.name,
   price |-> local_product.row.price, stock |-> local_product.row.stock,
   buying_price |-> local_product.row.buying_price,
   updated_at |-> 0, external_id |-> 0]

MapExternalProduct(ext_product) ==
  [name |-> ext_product.name, price |-> ext_product.price,
   stock |-> ext_product.stock, buying_price |-> ext_product.buying_price]

\* one turn of the loop of _push_products
PushProduct(st, local_product) ==
  LET ext_product == MapLocalProduct(local_product)
      external_id == local_product.external_id
      known == IndexOf(st.mock_data.products, external_id) # 0
  IN IF local_product.sync_status = "deleted" THEN
       IF external_id # 0 THEN
         LET t == RemoteCall(st, "delete_product", local_product.id)
         IN IF known
            THEN [MockDeleteProduct(t, external_id) EXCEPT !.deleted = @ + 1]
            ELSE [t EXCEPT !.errors = @ + 1]
       ELSE st
     ELSE IF external_id # 0 THEN
       LET t == RemoteCall(st, "update_product", local_product.id)
       IN IF known
          THEN [MockUpdateProduct(t, external_id, ext_product)
                  EXCEPT !.updated = @ + 1]
          ELSE [t EXCEPT !.errors = @ + 1]
     ELSE
       LET t1 == MockCreateProduct(
                   RemoteCall(st, "create_product", local_product.id),
                   ext_product)
           new_id == t1.mock_data.products[Len(t1.mock_data.products)].id
           t2 == update_sync_status(t1, "product", local_product.id, new_id,
                                    "synced")
       IN [t2 EXCEPT !.created = @ + 1]

RECURSIVE PushProductsLoop(_, _)
PushProductsLoop(st, pending_products) ==
  IF pending_products = <<>> THEN st
  ELSE PushProductsLoop(PushProduct(st, Head(pending_products)),
                        Tail(pending_products))

PushProductsFrom(st) ==
  PushProductsLoop(st, get_pending_sync_items(st, "product", BatchSize))

push_products == PushProductsFrom(SyncBegin)

\* one turn of the loop of _pull_products; the products table has no
\* external_id column, so the lookup a payload with an external_id asks for
\* raises, which the loop records as an error
PullProduct(st, ext_product) ==
  IF ext_product.external_id # 0 THEN [st EXCEPT !.errors = @ + 1]
  ELSE [add_product(st, MapExternalProduct(ext_product))
          EXCEPT !.created = @ + 1]

RECURSIVE PullProductsLoop(_, _)
PullProductsLoop(st, external_products) ==
  IF external_products = <<>> THEN st
  ELSE PullProductsLoop(PullProduct(st, Head(external_products)),
                        Tail(external_products))

PullProductsFrom(st) ==
  LET last_sync == get_sync_config(st, "last_product_sync")
      last_sync_time == IF last_sync # 0 THEN last_sync ELSE DatetimeMin
      t0 == RemoteCall(st, "get_products", 0)
      t1 == PullProductsLoop(t0, MockGetProducts(t0, last_sync_time))
  IN set_sync_config(t1, "last_product_sync", clock)

pull_products == PullProductsFrom(SyncBegin)

\* one turn of the loop of _pull_categories
PullCategory(st, ext_category) ==
  LET local_category == get_category_by_name(st, ext_category.name)
  IN IF local_category # 0
     THEN [update_sync_status(st, "category", local_category,
                              ext_category.id, "synced")
             EXCEPT !.updated = @ + 1]
     ELSE LET t1 == add_category(st, ext_category.name)
              new_category == get_category_by_name(t1, ext_category.name)
              t2 == IF new_category # 0
                    THEN update_sync_status(t1, "category", new_category,
                                            ext_category.id, "synced")
                    ELSE t1
          IN [t2 EXCEPT !.created = @ + 1]

RECURSIVE PullCategoriesLoop(_, _)
PullCategoriesLoop(st, external_categories) ==
  IF external_categories = <<>> THEN st
  ELSE PullCategoriesLoop(PullCategory(st, Head(external_categories)),
                          Tail(external_categories))

PullCategoriesFrom(st) ==
  PullCategoriesLoop(RemoteCall(st, "get_categories", 0),
                     Take(st.mock_data.categories, PageLimit))

pull_categories == PullCategoriesFrom(SyncBegin)

\* one turn of the loop of _pull_suppliers
PullSupplier(st, ext_supplier) ==
  LET local_supplier == SupplierByName(st, ext_supplier.name)
      supplier_data == [name |-> ext_supplier.name,
                        contact_person |-> ext_supplier.contact_person,
                        phone |-> ext_supplier.phone]
  IN IF local_supplier # 0
     THEN [update_sync_status(
             update_supplier(st, local_supplier, supplier_data),
             "supplier", local_supplier, ext_supplier.id, "synced")
             EXCEPT !.updated = @ + 1]
     ELSE LET t1 == add_supplier(st, supplier_data)
              new_supplier == SupplierByName(t1, ext_supplier.name)
              t2 == IF new_supplier # 0
                    THEN update_sync_status(t1, "supplier", new_supplier,
                                            ext_supplier.id, "synced")
                    ELSE t1
          IN [t2 EXCEPT !.created = @ + 1]

RECURSIVE PullSuppliersLoop(_, _)
PullSuppliersLoop(st, external_suppliers) ==
  IF external_suppliers = <<>> THEN st
  ELSE PullSuppliersLoop(PullSupplier(st, Head(external_suppliers)),
                         Tail(external_suppliers))

PullSuppliersFrom(st) ==
  PullSuppliersLoop(RemoteCall(st, "get_suppliers", 0),
                    Take(st.mock_data.suppliers, PageLimit))

pull_suppliers == PullSuppliersFrom(SyncBegin)

\* create_category / create_supplier: the new id is the number of records + 1
MockCreateCategory(st, category_data) ==
  [st EXCEPT !.mock_data.categories =
     Append(@, [category_data EXCEPT
                  !.id = Len(st.mock_data.categories) + 1])]

MockUpdateCategory(st, category_id, category_data) ==
  [st EXCEPT
     !.mock_data.categories[IndexOf(st.mock_data.categories, category_id)] =
        [category_data EXCEPT !.id = category_id]]

MockCreateSupplier(st, supplier_data) ==
  [st EXCEPT !.mock_data.suppliers =
     Append(@, [supplier_data EXCEPT
                  !.id = Len(st.mock_data.suppliers) + 1])]

MockUpdateSupplier(st, supplier_id, supplier_data) ==
  [st EXCEPT
     !.mock_data.suppliers[IndexOf(st.mock_data.suppliers, supplier_id)] =
        [supplier_data EXCEPT !.id = supplier_id]]

\* one turn of the loop of _push_categories: no branch looks at the status
PushCategory(st, local_category) ==
  LET category_data == [id |-> 0, name |-> local_category.row.name]
      external_id == local_category.external_id
  IN IF external_id # 0 THEN
       LET t == RemoteCall(st, "update_category", local_category.id)
       IN IF IndexOf(st.mock_data.categories, external_id) # 0
          THEN [MockUpdateCategory(t, external_id, category_data)
                  EXCEPT !.updated = @ + 1]
          ELSE [t EXCEPT !.errors = @ + 1]
     ELSE
       LET t1 == MockCreateCategory(
                   RemoteCall(st, "create_category", local_category.id),
                   category_data)
           new_id == t1.mock_data.categories[Len(t1.mock_data.categories)].id
           t2 == update_sync_status(t1, "category", local_category.id,
                                    new_id, "synced")
       IN [t2 EXCEPT !.created = @ + 1]

RECURSIVE PushCategoriesLoop(_, _)
PushCategoriesLoop(st, pending_categories) ==
  IF pending_categories = <<>> THEN st
  ELSE PushCategoriesLoop(PushCategory(st, Head(pending_categories)),
                          Tail(pending_categories))

PushCategoriesFrom(st) ==
  PushCategoriesLoop(st, get_pending_sync_items(st, "category", BatchSize))

push_categories == PushCategoriesFrom(SyncBegin)

\* one turn of the loop of _push_suppliers: no branch looks at the status
PushSupplier(st, local_supplier) ==
  LET supplier_data == [id |-> 0, name |-> local_supplier.row.name,
                        contact_person |-> local_supplier.row.contact_person,
                        phone |-> local_supplier.row.phone]
      external_id == local_supplier.external_id
  IN IF external_id # 0 THEN
       LET t == RemoteCall(st, "update_supplier", local_supplier.id)
       IN IF IndexOf(st.mock_data.suppliers, external_id) # 0
          THEN [MockUpdateSupplier(t, external_id, supplier_data)
                  EXCEPT !.updated = @ + 1]
          ELSE [t EXCEPT !.errors = @ + 1]
     ELSE
       LET t1 == MockCreateSupplier(
                   RemoteCall(st, "create_supplier", local_supplier.id),
                   supplier_data)
           new_id == t1.mock_data.suppliers[Len(t1.mock_data.suppliers)].id
           t2 == update_sync_status(t1, "supplier", local_supplier.id,
                                    new_id, "synced")
       IN [t2 EXCEPT !.created = @ + 1]

RECURSIVE PushSuppliersLoop(_, _)
PushSuppliersLoop(st, pending_suppliers) ==
  IF pending_suppliers = <<>> THEN st
  ELSE PushSuppliersLoop(PushSupplier(st, Head(pending_suppliers)),
                         Tail(pending_suppliers))

PushSuppliersFrom(st) ==
  PushSuppliersLoop(st, get_pending_sync_items(st, "supplier", BatchSize))

push_suppliers == PushSuppliersFrom(SyncBegin)

\* ------------------------------------------- sync_products and its siblings
\* record_sync_history: one INSERT into sync_history
record_sync_history(st, sync_type, entity_type, action, status) ==
  [st EXCEPT !.sync_history =
               Append(@, [sync_type |-> sync_type, entity_type |-> entity_type,
                          action |-> action, status |-> status,
                          created_at |-> clock]),
             !.writes = @ + 1]

\* results = {"success": True, "created": 0, ..., "errors": []}
NewResults(st, name) ==
  [st EXCEPT !.success = TRUE, !.created = 0, !.updated = 0, !.deleted = 0,
             !.errors = 0, !.log = Append(@, name)]

\* the dictionary a sync_* call returns
Results(st) ==
  [success |-> st.success, created |-> st.created, updated |-> st.updated,
   deleted |-> st.deleted, errors |-> st.errors]

\* The pull and the push phase catch every exception themselves, so the
\* except clause that sets success to False is never entered.
sync_products(st, direction) ==
  LET t0 == NewResults(st, "sync_products")
      t1 == IF direction \in {"pull", "bidirectional"}
            THEN PullProductsFrom(t0) ELSE t0
  IN IF direction \in {"push", "bidirectional"}
     THEN PushProductsFrom(t1) ELSE t1

sync_categories(st, direction) ==
  LET t0 == NewResults(st, "sync_categories")
      t1 == IF direction \in {"pull", "bidirectional"}
            THEN PullCategoriesFrom(t0) ELSE t0
  IN IF direction \in {"push", "bidirectional"}
     THEN PushCategoriesFrom(t1) ELSE t1

sync_suppliers(st, direction) ==
  LET t0 == NewResults(st, "sync_suppliers")
      t1 == IF direction \in {"pull", "bidirectional"}
            THEN PullSuppliersFrom(t0) ELSE t0
  IN IF direction \in {"push", "bidirectional"}
     THEN PushSuppliersFrom(t1) ELSE t1

\* the three syncs in another order: products before their dependencies
SyncAllProductsFirst(direction) ==
  LET p == sync_products(SyncBegin, direction)
      c == sync_categories(p, direction)
      s == sync_suppliers(c, direction)
  IN record_sync_history(
       [s EXCEPT !.results = [categories |-> Results(c),
                              suppliers |-> Results(s),
                              products |-> Results(p)]],
       "bidirectional", "all", "sync_all", "success")

\* the three syncs one after the other, then the history row
SyncAllFrom(st, direction) ==
  LET c == sync_categories([st EXCEPT !.log = <<>>], direction)
      s == sync_suppliers(c, direction)
      p == sync_products(s, direction)
      overall_success == p.success /\ c.success /\ s.success
  IN record_sync_history(
       [p EXCEPT !.results = [categories |-> Results(c),
                              suppliers |-> Results(s),
                              products |-> Results(p)]],
       "bidirectional", "all", "sync_all",
       IF overall_success THEN "success" ELSE "failed")

sync_all(direction) == SyncAllFrom(SyncBegin, direction)

\* direction of a sync call
Directions == {"pull", "push", "bidirectional"}

\* ------------------------------------------------------- sync state machine
\* category names and supplier rows the catalogue routes are called with
CategoryNames == {"External Electronics", "Local Category"}
SupplierRows ==
  {[name |-> "External Supplier Co", contact_person |-> "", phone |-> ""]}
\* track_entity's arguments: an entity id, an external id or None, a status
TrackedIds == {1}
TrackedExternalIds == {0, 1}
TrackedStatuses == {"pending", "updated", "deleted", "synced", "failed"}

\* init_db and init_sync_tables leave the catalogue and tracking tables
\* empty; enable_mock_mode has built the mock's data
SyncInitTables ==
  /\ categories = <<>>
  /\ suppliers = <<>>
  /\ product_seq = Cardinality(ProductIds)
  /\ category_seq = 0
  /\ supplier_seq = 0
  /\ sync_config = <<>>
  /\ mock_data =
       [products |->
          <<[id |-> 1, name |-> "External Product 1", price |-> 30,
             stock |-> 100, buying_price |-> 15, updated_at |-> 0,
             external_id |-> 0]>>,
        categories |->
          <<[id |-> 1, name |-> "External Electronics"],
            [id |-> 2, name |-> "External Books"]>>,
        suppliers |->
          <<[id |-> 1, name |-> "External Supplier Co",
             contact_person |-> "John Doe", phone |-> "+1-555-123-4567"]>>]
  /\ clock = 1
  /\ sync_history = <<>>
  /\ sync_last = [op |-> "init", success |-> TRUE, created |-> 0,
                  updated |-> 0, deleted |-> 0, errors |-> 0, calls |-> <<>>,
                  writes |-> 0, log |-> <<>>, results |-> <<>>]

SyncInit == SyncInitTables /\ sync_tracking = <<>>

\* what the call leaves behind, and its results
SyncWrite(st, op) ==
  /\ products' = st.products
  /\ product_seq' = st.product_seq
  /\ categories' = st.categories
  /\ category_seq' = st.category_seq
  /\ suppliers' = st.suppliers
  /\ supplier_seq' = st.supplier_seq
  /\ sync_tracking' = st.sync_tracking
  /\ sync_config' = st.sync_config
  /\ mock_data' = st.mock_data
  /\ sync_history' = st.sync_history
  /\ sync_last' = [op |-> op, success |-> st.success, created |-> st.created,
                   updated |-> st.updated, deleted |-> st.deleted,
                   errors |-> st.errors, calls |-> st.calls,
                   writes |-> st.writes, log |-> st.log,
                   results |-> st.results]
  /\ UNCHANGED <<chart_of_accounts, sales, sale_items, sale_payments,
                 purchases, purchase_items, expenses, journal_entries,
                 sale_seq, purchase_seq, expense_seq, today, last>>

SyncLeave(st, op) == SyncWrite(st, op) /\ UNCHANGED <<autoVars, apiVars, saleVars>>

\* the call takes time
SyncApply(st, op) == SyncLeave(st, op) /\ clock' = clock + 1

PushProducts == clock <= MaxSyncOps /\ SyncApply(push_products, "push_products")

PullProducts == clock <= MaxSyncOps /\ SyncApply(pull_products, "pull_products")

PullCategories ==
  clock <= MaxSyncOps /\ SyncApply(pull_categories, "pull_categories")

PullSuppliers ==
  clock <= MaxSyncOps /\ SyncApply(pull_suppliers, "pull_suppliers")

PushCategories ==
  clock <= MaxSyncOps /\ SyncApply(push_categories, "push_categories")

PushSuppliers ==
  clock <= MaxSyncOps /\ SyncApply(push_suppliers, "push_suppliers")

TrackEntity ==
  \E entity_type \in EntityTypes, entity_id \in TrackedIds,
     external_id \in TrackedExternalIds, sync_status \in TrackedStatuses :
    /\ clock <= MaxSyncOps
    /\ SyncApply(track_entity(SyncBegin, entity_type, entity_id, external_id,
                              sync_status), "track_entity")

AddCategory ==
  \E name \in CategoryNames :
    /\ clock <= MaxSyncOps
    /\ SyncApply(add_category(SyncBegin, name), "add_category")

AddSupplier ==
  \E supplier_data \in SupplierRows :
    /\ clock <= MaxSyncOps
    /\ SyncApply(add_supplier(SyncBegin, supplier_data), "add_supplier")

\* sync_all, called by the scheduled job or by hand
SyncAll ==
  \E direction \in Directions :
    /\ clock <= MaxSyncOps
    /\ SyncApply(sync_all(direction), "sync_all")

\* ---------------------------------------------------------------------
\* record_sale calls that run at the same time, each on its own connection
\* (gunicorn serves requests on several workers and threads)
\* ---------------------------------------------------------------------

Sessions == 1..MaxSessions

\* carts that sell product 1, alone or with product 2
SharedCarts == {c \in Carts : c # <<>> /\ c[1].product_id = 1}

SoldQuantities == {1, 2}

IdleSession ==
  [pc |-> "idle", cart |-> <<>>, quantity |-> 0, tx |-> <<>>, ok |-> FALSE,
   sale_id |-> 0, overlaps |-> FALSE]

\* the first line of the session's cart sells the quantity asked for
SessionCart(cart, quantity) == [cart EXCEPT ![1].quantity = quantity]

\* every connection may write at any time
LockIgnored(holder) == TRUE

\* SQLite lets one connection write at a time: the INSERT into sales
\* takes the write lock when no other connection holds it
LockFree(holder) == holder = 0

\* a request reaches record_sale, possibly while another call is inside
\* its transaction
SaleArrives(p) ==
  /\ sessions[p].pc = "idle"
  /\ \E cart \in SharedCarts, quantity \in SoldQuantities :
       sessions' = [sessions EXCEPT ![p] =
                      [IdleSession EXCEPT !.pc = "insert", !.cart = cart,
                                          !.quantity = quantity,
                                          !.overlaps = db_lock # 0]]
  /\ UNCHANGED <<ledgerVars, syncVars, autoVars, apiVars, db_lock>>

\* the INSERT into sales opens the transaction and takes the write lock;
\* the statements up to conn.commit() work on the connection's own copy
SaleInsert(p) ==
  /\ sessions[p].pc = "insert"
  /\ LockFree(db_lock)
  /\ db_lock' = p
  /\ sessions' = [sessions EXCEPT ![p].pc = "commit",
                    ![p].tx = RecordSaleBody(
                                SessionCart(sessions[p].cart,
                                            sessions[p].quantity),
                                <<>>, 0, 0, 0)]
  /\ UNCHANGED <<ledgerVars, syncVars, autoVars, apiVars>>

\* the INSERT finds the database locked until its timeout: the except
\* clause rolls back and the call returns (False, None)
SaleBusy(p) ==
  /\ sessions[p].pc = "insert"
  /\ ~LockFree(db_lock)
  /\ sessions' = [sessions EXCEPT ![p].pc = "done", ![p].ok = FALSE]
  /\ UNCHANGED <<ledgerVars, syncVars, autoVars, apiVars, db_lock>>

\* conn.commit() (or conn.rollback() after an exception) and conn.close()
SaleCommit(p) ==
  /\ sessions[p].pc = "commit"
  /\ LET tx == Finish(sessions[p].tx)
     IN /\ Apply(tx)
        /\ last' = [op |-> "record_sale", ok |-> tx.ok,
                    id |-> IF tx.ok THEN tx.sale_seq ELSE 0]
        /\ sessions' = [sessions EXCEPT ![p].pc = "done", ![p].ok = tx.ok,
                          ![p].tx = <<>>,
                          ![p].sale_id = IF tx.ok THEN tx.sale_seq ELSE 0]
  /\ db_lock' = 0
  /\ UNCHANGED <<chart_of_accounts, today, syncVars, autoVars, apiVars>>

ConcurrentNext ==
  \E p \in Sessions :
    \/ SaleArrives(p)
    \/ SaleInsert(p)
    \/ SaleBusy(p)
    \/ SaleCommit(p)

\* ---------------------------------------------------------------------
\* APIClient._make_request: one HTTP request with its retry loop
\* ---------------------------------------------------------------------

\* APIConfig.retry_attempts and APIConfig.retry_delay
RetryAttempts == 0..MaxRetryAttempts

RetryDelays == {1, 2}

\* what session.request and response.json() can produce: a status with a
\* JSON body, a 200 whose body is not JSON (response.json() raises), a 204,
\* another status, or an exception of session.request
Responses ==
  {"200", "201", "204", "200 not JSON", "500", "Timeout", "ConnectionError",
   "Exception"}

\* the message the code keeps for a response that is not a success
ErrorMessage(response) ==
  CASE response = "500" -> "HTTP 500: text"
    [] response = "Timeout" -> "Request timeout"
    [] response = "ConnectionError" -> "Connection error"
    [] OTHER -> "str(e)"

\* the same delay before every retry
FlatDelay(rq) == rq.retry_delay

\* time.sleep(self.config.retry_delay * (attempt + 1))
RetryDelay(rq) == rq.retry_delay * (rq.attempt + 1)

\* no request in progress
ApiIdle ==
  [retry_attempts |-> 0, retry_delay |-> 1, attempt |-> 0,
   responses |-> <<>>, slept |-> <<>>, error_msg |-> "", pc |-> "idle",
   result |-> <<>>]

\* one pass of the for loop over range(retry_attempts + 1), the response
\* of session.request being given
Attempt(rq, response) ==
  LET received == [rq EXCEPT !.responses = Append(@, response)]
  IN IF response \in {"200", "201"}
       THEN [received EXCEPT !.pc = "returned", !.result = <<TRUE, "json">>]
     ELSE IF response = "204"
       THEN [received EXCEPT !.pc = "returned", !.result = <<TRUE, "None">>]
     ELSE IF rq.attempt < rq.retry_attempts
       THEN [received EXCEPT !.error_msg = ErrorMessage(response),
                             !.slept = Append(@, RetryDelay(rq)),
                             !.attempt = @ + 1]
     ELSE [received EXCEPT !.error_msg = ErrorMessage(response),
                           !.pc = "returned",
                           !.result = <<FALSE, ErrorMessage(response)>>]

\* a call of _make_request begins, under some configuration
MakeRequest ==
  /\ api_request.pc # "request"
  /\ \E n \in RetryAttempts, d \in RetryDelays :
       api_request' = [ApiIdle EXCEPT !.retry_attempts = n, !.retry_delay = d,
                                      !.pc = "request"]
  /\ UNCHANGED <<ledgerVars, syncVars, autoVars, saleVars>>

\* the loop makes its next request
RequestAttempt ==
  /\ api_request.pc = "request"
  /\ \E response \in Responses :
       api_request' = Attempt(api_request, response)
  /\ UNCHANGED <<ledgerVars, syncVars, autoVars, saleVars>>

RequestNext == MakeRequest \/ RequestAttempt

\* ---------------------------------------------------------------------
\* Automatic synchronisation: SyncService.start_auto_sync, stop_auto_sync
\* and the worker thread _auto_sync_worker
\* ---------------------------------------------------------------------

\* the service's fields and the threads and jobs of the process
AutoBegin ==
  [running |-> running, sync_thread |-> sync_thread, workers |-> workers,
   jobs |-> jobs]

\* start_auto_sync without its guard
StartWithoutCheck(sv) ==
  [sv EXCEPT !.running = TRUE,
             !.workers = Append(@, "register"),
             !.sync_thread = Len(sv.workers) + 1]

\* start_auto_sync: returns when running, else sets running and starts a
\* new thread on _auto_sync_worker
start_auto_sync(sv) ==
  IF sv.running THEN sv ELSE StartWithoutCheck(sv)

\* stop_auto_sync: clears running, nothing else
stop_auto_sync(sv) == [sv EXCEPT !.running = FALSE]

AutoLeave(sv, op) ==
  /\ running' = sv.running
  /\ sync_thread' = sv.sync_thread
  /\ workers' = sv.workers
  /\ jobs' = sv.jobs
  /\ auto_last' = op

\* threads whose _auto_sync_worker has not returned
AliveWorkers == {w \in DOMAIN workers : workers[w] # "done"}

DueJobs == {j \in DOMAIN jobs : jobs[j]}

StartAutoSync ==
  /\ running \/ Len(workers) < MaxThreads
  /\ AutoLeave(start_auto_sync(AutoBegin), "start_auto_sync")
  /\ UNCHANGED <<ledgerVars, syncVars, apiVars, saleVars, interval_runs>>

StopAutoSync ==
  /\ AutoLeave(stop_auto_sync(AutoBegin), "stop_auto_sync")
  /\ UNCHANGED <<ledgerVars, syncVars, apiVars, saleVars, interval_runs>>

\* the worker's first statement: schedule.every(..).minutes.do(sync_all)
\* appends a job to the scheduler of the schedule module
WorkerRegister(w) ==
  /\ workers[w] = "register"
  /\ workers' = [workers EXCEPT ![w] = "check"]
  /\ jobs' = Append(jobs, FALSE)
  /\ UNCHANGED <<ledgerVars, syncVars, apiVars, saleVars, running, sync_thread, interval_runs,
                 auto_last>>

\* while self.running
WorkerCheck(w) ==
  /\ workers[w] = "check"
  /\ workers' = [workers EXCEPT ![w] = IF running THEN "run_pending"
                                                   ELSE "done"]
  /\ UNCHANGED <<ledgerVars, syncVars, apiVars, saleVars, running, sync_thread, jobs,
                 interval_runs, auto_last>>

\* schedule.run_pending(): the due jobs run one after the other, each a
\* sync_all(), and each is scheduled for its next run
WorkerRunJob(w) ==
  /\ workers[w] = "run_pending"
  /\ DueJobs # {}
  /\ LET job == CHOOSE j \in DueJobs : \A k \in DueJobs : j <= k
     IN jobs' = [jobs EXCEPT ![job] = FALSE]
  /\ interval_runs' = interval_runs + 1
  /\ SyncWrite(SyncAllFrom(SyncBegin, "bidirectional"), "sync_all")
  /\ UNCHANGED <<clock, apiVars, saleVars, running, sync_thread, workers, auto_last>>

\* run_pending returns when no job is due: time.sleep(60)
WorkerSleep(w) ==
  /\ workers[w] = "run_pending"
  /\ DueJobs = {}
  /\ workers' = [workers EXCEPT ![w] = "sleep"]
  /\ UNCHANGED <<ledgerVars, syncVars, apiVars, saleVars, running, sync_thread, jobs,
                 interval_runs, auto_last>>

\* time.sleep(60) returns
WorkerWake(w) ==
  /\ workers[w] = "sleep"
  /\ workers' = [workers EXCEPT ![w] = "check"]
  /\ UNCHANGED <<ledgerVars, syncVars, apiVars, saleVars, running, sync_thread, jobs,
                 interval_runs, auto_last>>

\* sync_interval_minutes pass: every job of the scheduler is due
IntervalElapses ==
  /\ clock <= MaxSyncOps
  /\ jobs # <<>>
  /\ clock' = clock + 1
  /\ jobs' = [j \in DOMAIN jobs |-> TRUE]
  /\ interval_runs' = 0
  /\ UNCHANGED <<ledgerVars, products, categories, suppliers, product_seq,
                 category_seq, supplier_seq, sync_tracking, sync_config,
                 mock_data, sync_last, sync_history, running, sync_thread,
                 workers, auto_last, apiVars, saleVars>>

AutoNext ==
  \/ StartAutoSync
  \/ StopAutoSync
  \/ \E w \in DOMAIN workers : WorkerRegister(w)
  \/ \E w \in DOMAIN workers : WorkerCheck(w)
  \/ \E w \in DOMAIN workers : WorkerRunJob(w)
  \/ \E w \in DOMAIN workers : WorkerSleep(w)
  \/ \E w \in DOMAIN workers : WorkerWake(w)
  \/ IntervalElapses

SyncNext ==
  \/ SyncAll
  \/ PushProducts
  \/ PullProducts
  \/ PullCategories
  \/ PullSuppliers
  \/ PushCategories
  \/ PushSuppliers
  \/ TrackEntity
  \/ AddCategory
  \/ AddSupplier

\* SyncService.__init__: not running, no thread; the scheduler has no job
AutoInit ==
  /\ running = FALSE
  /\ sync_thread = 0
  /\ workers = <<>>
  /\ jobs = <<>>
  /\ interval_runs = 0
  /\ auto_last = "init"

ApiInit == api_request = ApiIdle

\* no connection is open
SessionInit ==
  /\ db_lock = 0
  /\ sessions = [p \in Sessions |-> IdleSession]

Init == LedgerInit /\ SyncInit /\ AutoInit /\ ApiInit /\ SessionInit

Spec == Init /\ [][LedgerNext]_vars

SyncSpec == Init /\ [][SyncNext]_vars

AutoSpec == Init /\ [][AutoNext]_vars

ConcurrentSpec == Init /\ [][ConcurrentNext]_vars

\* the request loop is the body of a running call: it takes its next step
RequestSpec == Init /\ [][RequestNext]_vars /\ WF_apiVars(RequestAttempt)

\* ---------------------------------------------------- repeated push cycles
\* The products are tracked: track_entity has been called for each of them,
\* with or without an external id, with a status that makes it pending.
TrackedRows ==
  [external_id : {0, 1}, sync_status : PendingStatuses,
   last_sync : {0}, sync_hash : {<<>>}]

DrainInit ==
  /\ LedgerInit
  /\ SyncInitTables
  /\ AutoInit
  /\ ApiInit
  /\ SessionInit
  /\ \E rows \in [ProductIds -> TrackedRows] :
       sync_tracking =
         [key \in {"product"} \X ProductIds |->
            [rows[key[2]] EXCEPT
               !.sync_hash =
                  generate_sync_hash([products |-> InitProducts], "product",
                                     key[2])]]

\* sync_products("push") once more.  Only pushes run here and a push compares
\* no timestamp, so the readings of the clock are taken modulo MaxSyncOps + 1.
\* the timer of _auto_sync_worker goes off: the next reading of the clock
SyncTimer == clock' = (clock % (MaxSyncOps + 1)) + 1

PushCycle ==
  /\ SyncLeave(push_products, "push_products")
  /\ SyncTimer

DrainNext == PushCycle

\* The worker thread loops for as long as the service runs, so the timer goes
\* off again and again; a step that moves the clock is a PushCycle step.
DrainSpec == DrainInit /\ [][DrainNext]_vars /\ WF_clock(SyncTimer)

\* ------------------------------------------------------------------ claims
Tables ==
  <<products, sales, sale_items, sale_payments, purchases, purchase_items,
    expenses, journal_entries>>

Entries == {journal_entries[i] : i \in 1..Len(journal_entries)}

\* units of product p on the item rows of sale s
SoldQuantity(s, p) ==
  LET rows == SelectSeq(sale_items,
                        LAMBDA r : r.sale_id = s /\ r.product_id = p)
  IN SumSeq([i \in 1..Len(rows) |-> rows[i].quantity])

\* the reference types under which a journal entry's reference_id is a sale id
SaleReferenceTypes == {"sale", "sale_payment"}

\* this step is a delete_sale_by_id(s) that found the sale
DeletedSale(s) ==
  /\ s \in DOMAIN sales
  /\ last' = [op |-> "delete_sale_by_id", ok |-> TRUE, id |-> s]

\* C1: deleting a sale, after any record_sale and add_payment_to_sale calls
\* on it, puts the sold quantity of every product of the sale back in stock,
\* leaves no journal entry tagged to that sale id (the claim says whatever
\* the reference_type: already the entries whose reference_id is a sale id,
\* those of type sale and sale_payment, refute it), and get_sale_by_id then
\* finds nothing.
C1_DeleteSaleRemovesEverything ==
  [][\A s \in 1..(sale_seq + 1) :
       DeletedSale(s) =>
         /\ \A p \in DOMAIN products :
              products'[p].stock = products[p].stock + SoldQuantity(s, p)
         /\ \A i \in 1..Len(journal_entries') :
              ~(/\ journal_entries'[i].reference_id = s
                /\ journal_entries'[i].reference_type \in SaleReferenceTypes)
         /\ get_sale_by_id(s)' = <<>>]_vars

ParentExists(e) ==
  CASE e.reference_type \in SaleReferenceTypes -> e.reference_id \in DOMAIN sales
    [] e.reference_type = "purchase" -> e.reference_id \in DOMAIN purchases
    [] e.reference_type = "expense" -> e.reference_id \in DOMAIN expenses
    [] OTHER -> FALSE

HasEntry(ref_type, ref_id) ==
  \E e \in Entries : e.reference_type = ref_type /\ e.reference_id = ref_id

\* C2: in every reachable state every sale, purchase and expense row has its
\* journal entries, and every journal entry with a reference_id refers to a
\* sale, purchase or expense row that exists.
C2_RowsAndEntriesTogether ==
  /\ \A s \in DOMAIN sales : HasEntry("sale", s)
  /\ \A p \in DOMAIN purchases : HasEntry("purchase", p)
  /\ \A x \in DOMAIN expenses : HasEntry("expense", x)
  /\ \A e \in Entries : e.reference_id # 0 => ParentExists(e)

AllAmountsPositive == \A e \in Entries : e.amount > 0

BalanceSheetBalances(end_date) ==
  LET bs == get_balance_sheet(end_date)
  IN bs.assets = bs.liabilities + bs.equity

\* C3: for any end_date get_balance_sheet returns assets.total equal to
\* liabilities.total + equity.total, on any ledger that record_sale (with or
\* without a discount), add_payment_to_sale, record_purchase and add_expense
\* produce; stated here for the ledgers whose entries all have a positive
\* amount, which is already refuted.
C3_BalanceSheetBalances ==
  AllAmountsPositive => \A end_date \in EndDates : BalanceSheetBalances(end_date)

\* debits minus credits of one account inside the window
DebitBalance(account, start_date, end_date) ==
  LET rows == SelectSeq(journal_entries,
                        LAMBDA e : InWindow(e, start_date, end_date))
  IN SumSeq([i \in 1..Len(rows) |->
               (IF rows[i].debit = account THEN rows[i].amount ELSE 0)
               - (IF rows[i].credit = account THEN rows[i].amount ELSE 0)])

\* C4: get_profit_and_loss_statement returns net_revenue = the Sales Revenue
\* balance minus the discounts posted to Sales Discounts, gross_profit =
\* net_revenue - the COGS balance, and net_profit = gross_profit - the sum of
\* the positive balances of the other expense accounts.
C4_ProfitAndLoss ==
  \A start_date \in EndDates, end_date \in EndDates :
    LET pnl == get_profit_and_loss_statement(start_date, end_date)
        revenue == 0 - DebitBalance("Sales Revenue", start_date, end_date)
        discounts == DebitBalance("Sales Discounts", start_date, end_date)
        cogs == DebitBalance("Cost of Goods Sold", start_date, end_date)
        others == DefaultAccounts \ {"Cost of Goods Sold"}
        PositiveExpense(a) ==
          IF AccountType[a] = "Expense"
             /\ DebitBalance(a, start_date, end_date) > 0
          THEN DebitBalance(a, start_date, end_date) ELSE 0
    IN chart_of_accounts = DefaultAccounts =>
         /\ pnl.net_revenue = revenue - discounts
         /\ pnl.gross_profit = pnl.net_revenue - cogs
         /\ pnl.net_profit = pnl.gross_profit - SumOver(others, PositiveExpense)

\* C6: a record_sale call that fails, whatever the reason, returns
\* (False, None) and leaves sales, sale_items, sale_payments, product stock
\* and journal_entries (and every other table) as they were before the call.
C6_FailedSaleChangesNothing ==
  [][(last'.op = "record_sale" /\ ~last'.ok) =>
       /\ last'.id = 0
       /\ UNCHANGED <<Tables, sale_seq, purchase_seq, expense_seq>>]_vars

\* a record_sale has failed on a database that already holds a sale, a
\* payment and journal entries, with the chart of accounts in place
C6_Witness ==
  /\ last.op = "record_sale" /\ ~last.ok
  /\ chart_of_accounts = DefaultAccounts
  /\ DOMAIN sales # {} /\ journal_entries # <<>>

\* C7: every journal entry in the ledger has amount > 0, whatever the inputs
\* of record_sale, add_payment_to_sale, record_purchase and add_expense.
C7_AmountsPositive == AllAmountsPositive

\* ------------------------------------------------------------ sync claims
\* this step is one call of the synchronisation function op
SyncStep(op) == clock' = clock + 1 /\ sync_last'.op = op

\* the remote calls of one kind a call made for one local row
CallsMade(result, call, entity_id) ==
  {i \in DOMAIN result.calls :
     result.calls[i] = [call |-> call, entity_id |-> entity_id]}

NeverSynced(p) ==
  p \in DOMAIN products /\ <<"product", p>> \notin DOMAIN sync_tracking

\* the external id the remote gave the product created for local row p
CreatedRemotely(p, external_id) ==
  \E i \in DOMAIN mock_data'.products \ DOMAIN mock_data.products :
    /\ mock_data'.products[i].name = products[p].name
    /\ mock_data'.products[i].id = external_id

\* C8: a push of a product that has no tracking row and no external id makes
\* exactly one remote create call for it and leaves a sync_tracking row for
\* it that holds the external id the remote returned; the push that follows,
\* the product unchanged, makes no remote call for it.
C8_PushCreatesOnceAndTracks ==
  [][SyncStep("push_products") =>
       \A p \in DOMAIN products :
         /\ NeverSynced(p) =>
              /\ Cardinality(CallsMade(sync_last', "create_product", p)) = 1
              /\ <<"product", p>> \in DOMAIN sync_tracking'
              /\ CreatedRemotely(p, sync_tracking'[<<"product", p>>].external_id)
         /\ (/\ sync_last.op = "push_products"
             /\ CallsMade(sync_last, "create_product", p) # {})
              => \A i \in DOMAIN sync_last'.calls :
                   sync_last'.calls[i].entity_id # p]_vars

PullOps == {"pull_categories", "pull_suppliers", "pull_products"}

\* C9: a pull of categories, suppliers or products that directly follows the
\* same pull, the remote data unchanged in between, reports created = 0 and
\* updated = 0 and writes no catalogue row and no tracking row.
C9_SecondPullDoesNothing ==
  [][(\E op \in PullOps : SyncStep(op) /\ sync_last.op = op
                          /\ mock_data' = mock_data) =>
       /\ sync_last'.created = 0
       /\ sync_last'.updated = 0
       /\ UNCHANGED <<products, categories, suppliers, sync_tracking>>]_vars

\* the row named name has a tracking row holding external_id, status synced
TrackedAsSynced(rows, tracking, entity_type, name, external_id) ==
  \E id \in DOMAIN rows :
    /\ rows[id].name = name
    /\ <<entity_type, id>> \in DOMAIN tracking
    /\ tracking[<<entity_type, id>>].external_id = external_id
    /\ tracking[<<entity_type, id>>].sync_status = "synced"

\* C10: after a pull that processed its remote records without error, every
\* remote record it processed has a local counterpart with a sync_tracking
\* row whose external_id is the remote id and whose sync_status is synced;
\* for categories, suppliers and products.
C10_PullTracksCounterpart ==
  [][/\ (SyncStep("pull_categories") /\ sync_last'.errors = 0) =>
          \A i \in DOMAIN mock_data.categories :
            TrackedAsSynced(categories', sync_tracking', "category",
                            mock_data.categories[i].name,
                            mock_data.categories[i].id)
     /\ (SyncStep("pull_suppliers") /\ sync_last'.errors = 0) =>
          \A i \in DOMAIN mock_data.suppliers :
            TrackedAsSynced(suppliers', sync_tracking', "supplier",
                            mock_data.suppliers[i].name,
                            mock_data.suppliers[i].id)
     /\ (SyncStep("pull_products") /\ sync_last'.errors = 0) =>
          \A i \in DOMAIN mock_data.products :
            mock_data.products[i].updated_at
              > (IF "last_product_sync" \in DOMAIN sync_config
                 THEN sync_config["last_product_sync"] ELSE DatetimeMin)
            => TrackedAsSynced(products', sync_tracking', "product",
                               mock_data.products[i].name,
                               mock_data.products[i].id)]_vars

\* the synchronisation call that pushes each entity type, and the names of
\* the remote calls of each kind
PushOp ==
  [product |-> "push_products", category |-> "push_categories",
   supplier |-> "push_suppliers"]

RemoteCallName ==
  [create |-> [product |-> "create_product", category |-> "create_category",
               supplier |-> "create_supplier"],
   update |-> [product |-> "update_product", category |-> "update_category",
               supplier |-> "update_supplier"],
   delete |-> [product |-> "delete_product", category |-> "delete_category",
               supplier |-> "delete_supplier"]]

\* the remote calls of each kind this step's push made for one pending item
PushedAs(entity_type, item, creates, updates, deletes) ==
  LET Made(kind) ==
        Cardinality(CallsMade(sync_last', RemoteCallName[kind][entity_type],
                              item.id))
  IN /\ Made("create") = creates
     /\ Made("update") = updates
     /\ Made("delete") = deletes

\* C11: in the push of categories, suppliers and products, a pending item
\* with status deleted causes one remote delete call when it has an external
\* id and none when it has not, and never an update or create call; an item
\* with an external id and another status causes exactly one update call; an
\* item without an external id that is not deleted causes exactly one create
\* call.
C11_PushCallsFollowStatus ==
  [][\A entity_type \in EntityTypes :
       SyncStep(PushOp[entity_type]) =>
         LET pending == get_pending_sync_items(SyncBegin, entity_type, BatchSize)
         IN \A i \in DOMAIN pending :
              IF pending[i].sync_status = "deleted"
              THEN PushedAs(entity_type, pending[i], 0, 0,
                            IF pending[i].external_id # 0 THEN 1 ELSE 0)
              ELSE IF pending[i].external_id # 0
              THEN PushedAs(entity_type, pending[i], 0, 1, 0)
              ELSE PushedAs(entity_type, pending[i], 1, 0, 0)]_vars

\* the work queue of the product push
PendingProducts == get_pending_sync_items(SyncBegin, "product", BatchSize)

\* C12: when push cycles are repeated, every remote call succeeds and no
\* local row changes, the pending queue is drained: at some point
\* get_pending_sync_items returns the empty list (every item it returned at
\* first, those of status updated included, has been pushed and its tracking
\* status updated).
C12_PendingQueueDrains ==
  <>(sync_last.errors # 0 \/ PendingProducts = <<>>)

\* what the rows of a sale add up to
PaidFor(payment_rows, sale_id) ==
  LET mine == SelectSeq(payment_rows, LAMBDA r : r.sale_id = sale_id)
  IN SumSeq([i \in 1..Len(mine) |-> mine[i].amount])

SubtotalFor(item_rows, sale_id) ==
  LET mine == SelectSeq(item_rows, LAMBDA r : r.sale_id = sale_id)
  IN SumSeq([i \in 1..Len(mine) |-> mine[i].quantity * mine[i].price_at_sale])

\* a record_sale call has just committed sale sale_seq'
SaleRecorded == sale_seq' = sale_seq + 1

\* C13: the status record_sale stores is Paid when the sale has no customer;
\* with a customer it is Paid when the payments add up to within 0.01 of
\* subtotal - discount, otherwise Partial when the total paid is positive and
\* Due when nothing was paid.
C13_RecordSaleStatus ==
  [][SaleRecorded =>
       LET id == sale_seq'
           row == sales'[id]
           paid == PaidFor(sale_payments', id)
           final_total == SubtotalFor(sale_items', id) - row.discount_amount
       IN /\ row.customer_id = 0 => row.status = "Paid"
          /\ row.customer_id # 0 =>
               /\ Abs(paid - final_total) <= Tolerance => row.status = "Paid"
               /\ Abs(paid - final_total) > Tolerance /\ paid > 0
                    => row.status = "Partial"
               /\ Abs(paid - final_total) > Tolerance /\ paid = 0
                    => row.status = "Due"]_vars

\* a sale to a customer who paid more than the discounted total
C13_Witness ==
  /\ last.op = "record_sale" /\ last.ok
  /\ sales[last.id].customer_id # 0
  /\ sales[last.id].status = "Partial"
  /\ PaidFor(sale_payments, last.id) > 0

\* an add_payment_to_sale call has just returned True (the day is the only
\* thing that changes between two calls)
PaymentAdded ==
  last'.op = "add_payment_to_sale" /\ last'.ok /\ today' = today

\* C14: a successful add_payment_to_sale appends one payment row, posts
\* exactly one journal entry for the amount that credits Accounts Receivable
\* and debits Cash when the method is 'cash' in any letter case and Bank
\* otherwise, and leaves the sale Paid when all its payments add up to its
\* stored total_amount and Partial when they differ from it by more than 0.01.
C14_AddPaymentPostsOneEntry ==
  [][PaymentAdded =>
       LET id == last'.id
           row == sale_payments'[Len(sale_payments')]
           entry == journal_entries'[Len(journal_entries')]
           gap == Abs(PaidFor(sale_payments', id) - sales[id].total_amount)
       IN /\ id \in DOMAIN sales
          /\ sale_payments' = Append(sale_payments, row)
          /\ row.sale_id = id
          /\ journal_entries' = Append(journal_entries, entry)
          /\ entry.debit = IF row.method \in {"cash", "Cash", "CASH"}
                           THEN "Cash" ELSE "Bank"
          /\ entry.credit = "Accounts Receivable"
          /\ entry.amount = row.amount
          /\ sales'[id].total_amount = sales[id].total_amount
          /\ gap = 0 => sales'[id].status = "Paid"
          /\ gap > Tolerance => sales'[id].status = "Partial"
          /\ sales'[id].status \in {"Paid", "Partial"}]_vars

\* a sale on credit settled in full by a later cash payment
C14_Witness ==
  /\ last.op = "add_payment_to_sale" /\ last.ok
  /\ sales[last.id].customer_id # 0
  /\ sales[last.id].status = "Paid"
  /\ Len(sale_payments) = 1
  /\ journal_entries[Len(journal_entries)].debit = "Cash"

\* the call leaves payments, sales and journal as they are and reports failure
Refused(tx) ==
  /\ ~tx.ok
  /\ tx.sale_payments = sale_payments
  /\ tx.sales = sales
  /\ tx.journal_entries = journal_entries

\* C15: in every state, adding a payment of amount <= 0 to any sale fails
\* and leaves sale_payments, the sale status and journal_entries unchanged,
\* through the route add_sale_payment and through add_payment_to_sale alike.
C15_NonPositivePaymentRefused ==
  \A sale_id \in 1..(sale_seq + 1), pay \in LaterPayments :
    pay[2] <= 0 =>
      /\ Refused(add_sale_payment(sale_id, pay[1], pay[2]))
      /\ Refused(add_payment_to_sale(sale_id, pay[1], pay[2]))

\* the call reports failure and adds no expense, payment or journal row
NothingPersisted(tx) ==
  /\ ~tx.ok
  /\ tx.expenses = expenses
  /\ tx.sale_payments = sale_payments
  /\ tx.journal_entries = journal_entries

\* C16: in every state, add_expense naming an expense or payment account
\* that is not in the chart of accounts, and add_payment_to_sale naming a
\* sale id that no sale has, report failure and add no expense row, no
\* payment row and no journal entry.
C16_UnknownNamePersistsNothing ==
  /\ \A amount \in ExpenseAmounts, names \in ExpenseAccountPairs :
       (names[1] \notin chart_of_accounts \/ names[2] \notin chart_of_accounts)
         => NothingPersisted(add_expense(amount, names[1], names[2]))
  /\ \A sale_id \in 1..(sale_seq + 1), pay \in LaterPayments :
       sale_id \notin DOMAIN sales
         => NothingPersisted(add_payment_to_sale(sale_id, pay[1], pay[2]))

\* a payment for a sale id that does not exist has just been refused, with
\* the chart of accounts in place and entries in the journal
C16_Witness ==
  /\ last.op = "add_payment_to_sale" /\ ~last.ok
  /\ last.id \notin DOMAIN sales
  /\ chart_of_accounts = DefaultAccounts
  /\ journal_entries # <<>>

\* the units of product p on the lines of sale or purchase id
UnitsOf(rows, id_field, id, p) ==
  LET mine == SelectSeq(rows, LAMBDA r : r[id_field] = id /\ r.product_id = p)
  IN SumSeq([i \in 1..Len(mine) |-> mine[i].quantity])

\* C17: a step that changes the stock of a product is a record_sale that
\* takes the sold quantity off it or a record_purchase that adds the
\* purchased quantity to it; no other operation changes a product's stock.
C17_StockOnlyBySaleOrPurchase ==
  [][\A p \in DOMAIN products :
       (p \in DOMAIN products' /\ products'[p].stock # products[p].stock) =>
          \/ /\ sale_seq' = sale_seq + 1
             /\ products'[p].stock = products[p].stock
                  - UnitsOf(sale_items', "sale_id", sale_seq', p)
          \/ /\ purchase_seq' = purchase_seq + 1
             /\ products'[p].stock = products[p].stock
                  + UnitsOf(purchase_items', "purchase_id", purchase_seq', p)]_vars

\* debit, credit and amount of journal rows, in order
Postings(entries) ==
  [i \in 1..Len(entries) |->
     <<entries[i].debit, entries[i].credit, entries[i].amount>>]

\* the cost of the lines of a sale at the buying prices in prods
CostOfSale(item_rows, prods, sale_id) ==
  LET mine == SelectSeq(item_rows, LAMBDA r : r.sale_id = sale_id)
  IN SumSeq([i \in 1..Len(mine) |->
               mine[i].quantity * prods[mine[i].product_id].buying_price])

C19_PurchaseEffects ==
  \A items \in PurchaseLists :
    LET tx == record_purchase(1, items)
        id == purchase_seq + 1
        total == SumSeq([i \in 1..Len(items) |->
                           items[i].quantity * items[i].cost])
        entry == tx.journal_entries[Len(tx.journal_entries)]
    IN tx.ok =>
         /\ DOMAIN tx.purchases = DOMAIN purchases \cup {id}
         /\ \A k \in DOMAIN purchases : tx.purchases[k] = purchases[k]
         /\ tx.purchases[id].total_cost = total
         /\ tx.purchase_items = purchase_items \o
              [i \in 1..Len(items) |->
                 [purchase_id |-> id, product_id |-> items[i].product_id,
                  quantity |-> items[i].quantity,
                  cost_at_purchase |-> items[i].cost]]
         /\ DOMAIN tx.products = DOMAIN products
         /\ \A p \in DOMAIN products :
              LET lines == SelectSeq(items, LAMBDA l : l.product_id = p)
              IN IF lines = <<>> THEN tx.products[p] = products[p]
                 ELSE tx.products[p] =
                        [products[p] EXCEPT
                           !.stock = @ + SumSeq([i \in 1..Len(lines) |->
                                                   lines[i].quantity]),
                           !.price = lines[Len(lines)].new_price,
                           !.buying_price = lines[Len(lines)].cost]
         /\ tx.journal_entries = Append(journal_entries, entry)
         /\ entry.debit = "Inventory" /\ entry.credit = "Accounts Payable"
         /\ entry.amount = total
         /\ entry.reference_id = id /\ entry.reference_type = "purchase"

\* a purchase of two lines of product 1 has been recorded: the second line's
\* cost and price are on the product
C19_Witness ==
  /\ last.op = "record_purchase" /\ last.ok
  /\ Len(SelectSeq(purchase_items,
                   LAMBDA r : r.purchase_id = last.id /\ r.product_id = 1)) = 2
  /\ products[1].buying_price = 5 /\ products[1].price = 10
  /\ purchases[last.id].total_cost = 5

\* C20: in every state, delete_sale_by_id with an id that no sale has
\* returns False and leaves product stock, journal_entries, sale_payments,
\* sale_items and sales as they are.
C20_DeleteUnknownSaleIsNoOp ==
  \A sale_id \in 1..(sale_seq + 1) :
    sale_id \notin DOMAIN sales =>
      LET tx == delete_sale_by_id(sale_id)
      IN /\ ~tx.ok
         /\ tx.products = products
         /\ tx.journal_entries = journal_entries
         /\ tx.sale_payments = sale_payments
         /\ tx.sale_items = sale_items
         /\ tx.sales = sales

\* a delete of an id that no sale has was just answered with False, while
\* another sale with its items and journal entries is on record
C20_Witness ==
  /\ last.op = "delete_sale_by_id" /\ ~last.ok
  /\ last.id \notin DOMAIN sales
  /\ DOMAIN sales # {} /\ sale_items # <<>> /\ journal_entries # <<>>

\* the items the pull of products fetches in this state
FetchedProducts ==
  LET last_sync == get_sync_config(SyncBegin, "last_product_sync")
  IN MockGetProducts(SyncBegin, IF last_sync # 0 THEN last_sync ELSE DatetimeMin)

\* every item of a pull was counted once, and the items counted as created
\* are the rows the table has gained
PullAccounted(items, rows_before, rows_after) ==
  /\ sync_last'.success
  /\ sync_last'.created + sync_last'.updated + sync_last'.errors = Len(items)
  /\ sync_last'.created = rows_after - rows_before

\* C21: in the pull and the push of categories, suppliers and products an
\* item whose remote call or local processing fails is counted in the error
\* list and the batch goes on: every remote call of a push is counted once,
\* as created, updated, deleted or as an error; every item of a pull is
\* counted once, as created only when its row was stored, otherwise as
\* updated or as an error; and the success flag stays true.
C21_ItemFailuresAreReported ==
  [][/\ \A entity_type \in EntityTypes :
          SyncStep(PushOp[entity_type]) =>
            /\ sync_last'.success
            /\ sync_last'.created + sync_last'.updated + sync_last'.deleted
                 + sync_last'.errors = Len(sync_last'.calls)
     /\ SyncStep("pull_products") =>
          PullAccounted(FetchedProducts, product_seq, product_seq')
     /\ SyncStep("pull_categories") =>
          PullAccounted(Take(mock_data.categories, PageLimit),
                        category_seq, category_seq')
     /\ SyncStep("pull_suppliers") =>
          PullAccounted(Take(mock_data.suppliers, PageLimit),
                        supplier_seq, supplier_seq')]_vars

\* the sync a remote call belongs to: 1 categories, 2 suppliers, 3 products
CallPhase(call) ==
  CASE call \in {"get_categories", "create_category", "update_category",
                 "delete_category"} -> 1
    [] call \in {"get_suppliers", "create_supplier", "update_supplier",
                 "delete_supplier"} -> 2
    [] OTHER -> 3

\* C22: a sync_all call starts the category sync, the supplier sync and the
\* product sync once each, in this order, every remote call of one sync made
\* before the first call of the next, and appends exactly one sync_history
\* row of action sync_all whose status is success exactly when the three
\* results report success.
C22_SyncAllInOrderWithOneHistoryRow ==
  [][SyncStep("sync_all") =>
       LET calls == sync_last'.calls
           results == sync_last'.results
           row == sync_history'[Len(sync_history')]
       IN /\ sync_last'.log = <<"sync_categories", "sync_suppliers",
                                "sync_products">>
          /\ \A i, j \in DOMAIN calls :
               i < j => CallPhase(calls[i].call) <= CallPhase(calls[j].call)
          /\ sync_history' = Append(sync_history, row)
          /\ row.action = "sync_all"
          /\ row.status \in {"success", "failed"}
          /\ row.status = "success" <=>
               /\ results.categories.success
               /\ results.suppliers.success
               /\ results.products.success]_vars

\* a sync_all that made remote calls for categories, suppliers and products
\* has written its history row
C22_Witness ==
  /\ sync_last.op = "sync_all"
  /\ {CallPhase(sync_last.calls[i].call) : i \in DOMAIN sync_last.calls}
       = {1, 2, 3}
  /\ \E i \in DOMAIN sync_last.calls : sync_last.calls[i].call = "create_product"
  /\ sync_history # <<>>

\* C23: start_auto_sync and stop_auto_sync are idempotent: start_auto_sync
\* called while running creates no thread and leaves running, sync_thread,
\* the threads and the scheduler's jobs as they are, and stop_auto_sync
\* called while not running leaves them as they are.
C23_StartStopIdempotent ==
  /\ running => start_auto_sync(AutoBegin) = AutoBegin
  /\ ~running => stop_auto_sync(AutoBegin) = AutoBegin

\* start_auto_sync has started a thread, the thread has registered its job,
\* and the service is running
C23_Witness ==
  /\ running
  /\ auto_last = "start_auto_sync"
  /\ Len(workers) = 1
  /\ workers[1] = "sleep"
  /\ Len(jobs) = 1

\* C28: at most one worker thread is alive and at most one sync_all job
\* is registered with the scheduler, so an elapsed interval triggers
\* sync_all at most once.
C28_OneWorkerOneJob ==
  /\ Cardinality(AliveWorkers) <= 1
  /\ Len(jobs) <= 1
  /\ interval_runs <= 1

\* response.status_code
StatusCode(response) ==
  CASE response \in {"200", "200 not JSON"} -> 200
    [] response = "201" -> 201
    [] response = "204" -> 204
    [] response = "500" -> 500
    [] OTHER -> 0

\* C24: _make_request always returns, after at most retry_attempts + 1
\* requests: (True, body) at the first response with status 200 or 201,
\* (True, None) at the first 204, a retry after a timeout or a connection
\* error once retry_delay * attempt number has been slept, and
\* (False, error message) when the attempts are exhausted.
C24_MakeRequestTerminates ==
  /\ [](LET rq == api_request
            n == Len(rq.responses)
        IN /\ n <= rq.retry_attempts + 1
           /\ \A i \in 1..n :
                /\ StatusCode(rq.responses[i]) \in {200, 201, 204} =>
                     /\ i = n
                     /\ rq.pc = "returned"
                     /\ rq.result[1]
                     /\ rq.result[2] = "None" <=>
                          StatusCode(rq.responses[i]) = 204
                /\ (rq.responses[i] \in {"Timeout", "ConnectionError"}
                      /\ i <= rq.retry_attempts) =>
                     /\ Len(rq.slept) >= i
                     /\ rq.slept[i] = rq.retry_delay * i
           /\ (rq.pc = "returned" /\ ~rq.result[1]) =>
                /\ n = rq.retry_attempts + 1
                /\ rq.result[2] = ErrorMessage(rq.responses[n]))
  /\ (api_request.pc = "request") ~> (api_request.pc = "returned")

\* the limits get_pending_sync_items is called with
Limits == {0, 1, BatchSize}

\* the local rows of an entity type
LocalRows(entity_type) ==
  CASE entity_type = "product" -> products
    [] entity_type = "category" -> categories
    [] OTHER -> suppliers

\* the ids of the local rows that wait for a push: no tracking row, or a
\* tracking row with status pending, updated or deleted
WaitingIds(entity_type) ==
  {id \in DOMAIN LocalRows(entity_type) :
     \A key \in DOMAIN sync_tracking :
       key = <<entity_type, id>> =>
         sync_tracking[key].sync_status \in {"pending", "updated", "deleted"}}

\* C25: get_pending_sync_items(entity_type, limit) returns, in ascending
\* order of id, the first limit local rows of the entity type that have
\* no tracking row or a tracking row with status pending, updated or
\* deleted; a row tracked as synced or failed is never returned.
C25_PendingItemsAreTheWaitingRows ==
  \A entity_type \in EntityTypes, limit \in Limits :
    LET items == get_pending_sync_items(SyncBegin, entity_type, limit)
        returned == {items[i].id : i \in DOMAIN items}
    IN /\ Len(items) <= limit
       /\ \A i, j \in DOMAIN items : i < j => items[i].id < items[j].id
       /\ returned \subseteq WaitingIds(entity_type)
       /\ \A id \in WaitingIds(entity_type) \ returned :
            /\ Len(items) = limit
            /\ \A r \in returned : r < id
       /\ \A i \in DOMAIN items :
            /\ items[i].row = LocalRows(entity_type)[items[i].id]
            /\ items[i].sync_status \notin {"synced", "failed"}

\* a push has marked product 1 synced, and of the two products only the
\* other one waits
C25_Witness ==
  /\ <<"product", 1>> \in DOMAIN sync_tracking
  /\ sync_tracking[<<"product", 1>>].sync_status = "synced"
  /\ sync_last.op \in {"push_products", "sync_all"}
  /\ WaitingIds("product") = {2}
  /\ Len(get_pending_sync_items(SyncBegin, "product", BatchSize)) = 1

\* the record_sale calls that have committed
Committed == {p \in Sessions : sessions[p].pc = "done" /\ sessions[p].ok}

\* the units of a product in the carts of the committed calls
RECURSIVE CommittedUnits(_, _)
CommittedUnits(S, product_id) ==
  IF S = {} THEN 0
  ELSE LET p == CHOOSE x \in S : TRUE
           cart == SessionCart(sessions[p].cart, sessions[p].quantity)
       IN SumSeq([i \in DOMAIN cart |->
                    IF cart[i].product_id = product_id
                    THEN cart[i].quantity ELSE 0])
          + CommittedUnits(S \ {p}, product_id)

\* C26: when record_sale calls on the same product run at the same time
\* and commit, the product's stock is its initial stock less the
\* quantities of all of them, and each sale has a row of its own, all its
\* item rows and its journal entries.
C26_ConcurrentSalesLoseNoUpdate ==
  /\ \A product_id \in ProductIds :
       products[product_id].stock =
         InitProducts[product_id].stock
           - CommittedUnits(Committed, product_id)
  /\ \A p \in Committed :
       LET cart == SessionCart(sessions[p].cart, sessions[p].quantity)
           id == sessions[p].sale_id
       IN /\ id \in DOMAIN sales
          /\ \A q \in Committed \ {p} : sessions[q].sale_id # id
          /\ Len(SelectSeq(sale_items, LAMBDA r : r.sale_id = id)) = Len(cart)
          /\ \A i \in DOMAIN cart :
               \E k \in DOMAIN sale_items :
                 /\ sale_items[k].sale_id = id
                 /\ sale_items[k].product_id = cart[i].product_id
                 /\ sale_items[k].quantity = cart[i].quantity
          /\ \E k \in DOMAIN journal_entries :
               /\ journal_entries[k].reference_id = id
               /\ journal_entries[k].reference_type = "sale"
               /\ journal_entries[k].debit = "Accounts Receivable"
               /\ journal_entries[k].credit = "Sales Revenue"
               /\ journal_entries[k].amount = CartSubtotal(cart)
          /\ \E k \in DOMAIN journal_entries :
               /\ journal_entries[k].reference_id = id
               /\ journal_entries[k].debit = "Cost of Goods Sold"
               /\ journal_entries[k].credit = "Inventory"

\* two calls have both committed, the second having arrived while the
\* first was inside its transaction
C26_Witness ==
  /\ Committed = {1, 2}
  /\ sessions[2].overlaps
  /\ sessions[1].quantity = 2
  /\ sessions[2].quantity = 1
  /\ products[1].stock = InitProducts[1].stock - 3
  /\ sale_seq = 2

\* the payments recorded for a sale
PaymentsOf(sale_id) ==
  SumSeq([i \in DOMAIN sale_payments |->
            IF sale_payments[i].sale_id = sale_id
            THEN sale_payments[i].amount ELSE 0])

\* what the existing sales are still owed
RECURSIVE Outstanding(_)
Outstanding(S) ==
  IF S = {} THEN 0
  ELSE LET s == CHOOSE x \in S : TRUE
       IN sales[s].total_amount - PaymentsOf(s) + Outstanding(S \ {s})

\* C27: after any sequence of record_sale, add_payment_to_sale and
\* delete_sale_by_id (no purchase and no expense recorded), the balance of
\* Accounts Receivable, debits less credits, is the sum over the existing
\* sales of total_amount less the sale's payments.
C27_ReceivableMatchesOpenSales ==
  (purchase_seq = 0 /\ expense_seq = 0) =>
    get_account_balance({"Accounts Receivable"}, 0, 0)
      = Outstanding(DOMAIN sales)

\* C29: a sale whose status is Paid is not made Partial by a later
\* add_payment_to_sale on it.
C29_PaidStaysPaid ==
  [][\A s \in DOMAIN sales :
       (/\ PaymentAdded
        /\ last'.id = s
        /\ sales[s].status = "Paid"
        /\ s \in DOMAIN sales')
         => sales'[s].status # "Partial"]_vars

\* C30: no product's stock is ever negative, the stocks being non-negative
\* at the start: a sale of more units than are in stock does not succeed.
C30_StockNeverNegative ==
  \A p \in DOMAIN products : products[p].stock >= 0
====
